---- MODULE Spec2Model ----
(***************************************************************************)
(* Row-construction engine of the covering / locating / detecting array    *)
(* generator (Sources/array.cpp, Sources/heuristics.cpp).                  *)
(*                                                                         *)
(* An Array object is a record.  Pointers are modelled by what they are    *)
(* resolved through in the source: a Single* is the pair <<factor,value>>, *)
(* an Interaction* is the position of the Interaction in the interactions  *)
(* vector, a T* is the position of the T set in the sets vector (both      *)
(* counted from 1).  Columns and levels are counted from 0 as in the       *)
(* source, so column c of a row is row[c + 1].                             *)
(*                                                                         *)
(* Counters are unbounded integers; the source holds them in 64 bit words  *)
(* (l_issues signed, the others unsigned) and the bounds below keep every  *)
(* value far inside that range.                                            *)
(***************************************************************************)
EXTENDS Integers, Sequences, FiniteSets, TLC

VARIABLES
    in,     \* the Parser handed to the constructor
    arr,    \* the Array under construction
    ahead   \* the look-ahead copy of the Array, while one is alive

vars == <<in, arr, ahead>>

(***************************************************************************)
(* Bounds of the model.                                                    *)
(***************************************************************************)
MaxRows == 4        \* rows committed per behaviour
MaxD == 2           \* largest magnitude d of a T set
MaxDelta == 1       \* largest separation delta
MaxNumRows == 1     \* largest num_rows handed over by the Parser

\* the levels vectors the Parser may hand over
LevelsChoices == {<<2, 2>>, <<2, 3>>}

\* prop_mode values used as the property phase p
PropModes == {"c_only", "c_and_l", "all"}

\* the orders in which a pointer-keyed std::set may be traversed
AddressOrders == {"asc", "desc"}

(***************************************************************************)
(* Small helpers on sequences and sets.                                    *)
(***************************************************************************)
Range(s) == {s[k] : k \in DOMAIN s}

Count(s, x) == Cardinality({k \in DOMAIN s : s[k] = x})

RECURSIVE SumSet(_, _)
SumSet(S, f) ==
    IF S = {} THEN 0
    ELSE LET x == CHOOSE y \in S : TRUE IN f[x] + SumSet(S \ {x}, f)

\* next element visited when a std::set of pointers is traversed
Pick(S, order) ==
    IF order = "asc" THEN CHOOSE x \in S : \A y \in S : x <= y
    ELSE CHOOSE x \in S : \A y \in S : x >= y

(***************************************************************************)
(* Fingerprints.  A std::string is the sequence of its tokens; decimal     *)
(* numbers are single tokens.                                              *)
(***************************************************************************)
\* "f" + std::to_string(col) + "," + std::to_string(val)
SingleToString(s) == <<"f", s[1], ",", s[2]>>

RECURSIVE InteractionToString(_)
InteractionToString(singles) ==
    IF singles = <<>> THEN <<>>
    ELSE SingleToString(Head(singles)) \o InteractionToString(Tail(singles))

RECURSIVE TToString(_, _)
TToString(interactions, members) ==
    IF members = <<>> THEN <<>>
    ELSE InteractionToString(interactions[Head(members)].singles)
            \o TToString(interactions, Tail(members))

(***************************************************************************)
(* Construction.                                                           *)
(***************************************************************************)
\* Single::Single(factor, value)
NewSingle(f, v) ==
    [factor |-> f, value |-> v, rows |-> {},
     c_issues |-> 0, l_issues |-> 0, d_issues |-> 0]

\* the pointers to the Singles of the levels vector, factors[i]->singles[j]
SinglePointers(levels) ==
    UNION {{<<f, v>> : v \in 0..(levels[f + 1] - 1)} : f \in 0..(Len(levels) - 1)}

\* all t-way combinations of Singles, in the order the recursion creates them;
\* (col, level) is the position of the two nested loops
RECURSIVE build_t_way_interactions(_, _, _, _, _)
build_t_way_interactions(levels, col, level, t_cur, singles_so_far) ==
    IF t_cur = 0 THEN <<singles_so_far>>
    ELSE IF col >= Len(levels) - t_cur + 1 THEN <<>>
    ELSE IF level >= levels[col + 1]
         THEN build_t_way_interactions(levels, col + 1, 0, t_cur, singles_so_far)
    ELSE build_t_way_interactions(levels, col + 1, 0, t_cur - 1,
                                  Append(singles_so_far, <<col, level>>))
         \o build_t_way_interactions(levels, col, level + 1, t_cur, singles_so_far)

\* all size-d combinations of Interactions, in the order the recursion creates
\* them; n is interactions.size(), i the loop position (from 0)
RECURSIVE build_size_d_sets(_, _, _, _)
build_size_d_sets(n, i, d_cur, interactions_so_far) ==
    IF d_cur = 0 THEN <<interactions_so_far>>
    ELSE IF i >= n - d_cur + 1 THEN <<>>
    ELSE build_size_d_sets(n, i + 1, d_cur - 1, Append(interactions_so_far, i + 1))
         \o build_size_d_sets(n, i + 1, d_cur, interactions_so_far)

\* rows of a new Interaction: the intersection of its Singles' rows
RECURSIVE IntersectRows(_, _)
IntersectRows(singles, temp) ==
    IF Len(temp) = 1 THEN singles[temp[1]].rows
    ELSE singles[temp[Len(temp)]].rows
            \cap IntersectRows(singles, SubSeq(temp, 1, Len(temp) - 1))

\* Interaction::Interaction(temp); sets and deltas are filled in later
NewInteraction(singles, temp) ==
    [singles |-> temp, rows |-> IntersectRows(singles, temp),
     is_covered |-> FALSE, is_detectable |-> FALSE,
     sets |-> {}, deltas |-> <<>>]

\* the Singles of a T set: those of its Interactions, one after the other
RECURSIVE TSingles(_, _)
TSingles(interactions, temp) ==
    IF temp = <<>> THEN <<>>
    ELSE interactions[Head(temp)].singles \o TSingles(interactions, Tail(temp))

\* T::T(temp)
NewT(interactions, temp) ==
    [interactions |-> temp,
     rows |-> UNION {interactions[temp[k]].rows : k \in DOMAIN temp},
     singles |-> TSingles(interactions, temp),
     location_conflicts |-> {}, is_locatable |-> FALSE]

\* s->l_issues += k for every entry of the vector which (score is the caller's)
add_l_issues(singles, which, k) ==
    [s \in DOMAIN singles |->
        [singles[s] EXCEPT !.l_issues = @ + k * Count(which, s)]]

add_c_issues(singles, which, k) ==
    [s \in DOMAIN singles |->
        [singles[s] EXCEPT !.c_issues = @ + k * Count(which, s)]]

add_d_issues(singles, which, k) ==
    [s \in DOMAIN singles |->
        [singles[s] EXCEPT !.d_issues = @ + k * Count(which, s)]]

\* the vector of all Singles met when every entry of objs is walked
RECURSIVE AllSingles(_)
AllSingles(objs) ==
    IF objs = <<>> THEN <<>> ELSE Head(objs).singles \o AllSingles(Tail(objs))

\* Array::Array(): the default values
DefaultArray ==
    [total_problems |-> 0, coverage_problems |-> 0, location_problems |-> 0,
     detection_problems |-> 0, score |-> 0, d |-> 0, t |-> 0, delta |-> 0,
     num_tests |-> 0, num_factors |-> 0, p |-> "all",
     is_covering |-> FALSE, is_locating |-> FALSE, is_detecting |-> FALSE,
     factors |-> <<>>, singles |-> <<>>, interactions |-> <<>>, sets |-> <<>>,
     dont_cares |-> <<>>, permutation |-> <<>>,
     rows |-> <<>>, exited |-> FALSE]

\* the part of Array::Array(Parser*) up to the Interactions
ArrayInteractions(parser) ==
    LET levels == parser.levels
        built == build_t_way_interactions(levels, 0, 0, parser.t, <<>>)
        fresh == [s \in SinglePointers(levels) |-> NewSingle(s[1], s[2])]
        inters == [k \in DOMAIN built |-> NewInteraction(fresh, built[k])]
        touched == AllSingles(inters)
        \* build_t_way_interactions: one c_issue, total_problem and score
        \* per Single of every Interaction
        tp0 == Len(touched)
        sc0 == Len(touched)
        tp1 == tp0 + Len(inters)
    IN  [DefaultArray EXCEPT
            !.d = parser.d, !.t = parser.t, !.delta = parser.delta,
            !.num_tests = parser.num_rows, !.num_factors = parser.num_cols,
            !.p = parser.p,
            !.dont_cares = [c \in DOMAIN levels |-> "none"],
            !.permutation = [c \in DOMAIN levels |-> c - 1],
            !.factors = [c \in DOMAIN levels |-> [id |-> c - 1, level |-> levels[c]]],
            !.singles = add_c_issues(fresh, touched, 1),
            !.interactions = inters,
            !.total_problems = tp1,
            !.coverage_problems = Len(inters),
            !.score = sc0 + tp1]

\* the part of Array::Array(Parser*) that builds the T sets
ArraySets(a) ==
    LET built == build_size_d_sets(Len(a.interactions), 0, a.d, <<>>)
        ts == [k \in DOMAIN built |-> NewT(a.interactions, built[k])]
        touched == AllSingles(ts)
        tp == a.total_problems + Len(ts) * Len(touched) + Len(ts)
    IN  [a EXCEPT
            !.sets = ts,
            !.interactions = [i \in DOMAIN a.interactions |->
                [a.interactions[i] EXCEPT
                    !.sets = {k \in DOMAIN built : i \in Range(built[k])}]],
            !.singles = add_l_issues(a.singles, touched, Len(ts)),
            !.total_problems = tp,
            !.location_problems = a.location_problems + Len(ts),
            !.score = tp]

\* the part of Array::Array(Parser*) that builds the deltas maps
ArrayDeltas(a) ==
    LET others(i) == (DOMAIN a.sets) \ a.interactions[i].sets
        \* one entry per Single of i and per T set i is not part of
        RECURSIVE Touched(_)
        Touched(i) ==
            IF i > Len(a.interactions) THEN <<>>
            ELSE [k \in 1..(Cardinality(others(i)) * Len(a.interactions[i].singles))
                    |-> a.interactions[i].singles[((k - 1) % Len(a.interactions[i].singles)) + 1]]
                 \o Touched(i + 1)
        touched == Touched(1)
    IN  [a EXCEPT
            !.interactions = [i \in DOMAIN a.interactions |->
                [a.interactions[i] EXCEPT !.deltas = [ts \in others(i) |-> 0]]],
            !.singles = add_d_issues(a.singles, touched, a.delta),
            !.total_problems =
                a.total_problems + a.delta * Len(touched) + Len(a.interactions),
            !.detection_problems = a.detection_problems + Len(a.interactions),
            !.score = a.score + a.delta * Len(touched) + Len(a.interactions)]

\* Array::Array(Parser *in)
Array(parser) ==
    LET a1 == ArrayInteractions(parser)
    IN  IF parser.p = "c_only" THEN a1
        ELSE LET a2 == ArraySets(a1)
             IN  IF parser.p # "all" THEN a2 ELSE ArrayDeltas(a2)

(***************************************************************************)
(* Recovering the Interactions of a row.                                   *)
(***************************************************************************)
\* interaction_map.at(key): the Interaction whose fingerprint is key
interaction_map_at(a, key) ==
    CHOOSE i \in DOMAIN a.interactions :
        InteractionToString(a.interactions[i].singles) = key

\* the keys build_row_interactions looks up for a row; col is the loop position
RECURSIVE RowKeys(_, _, _, _, _)
RowKeys(num_factors, row, col, t_cur, key) ==
    IF t_cur = 0 THEN {key}
    ELSE IF col >= num_factors - t_cur + 1 THEN {}
    ELSE RowKeys(num_factors, row, col + 1, t_cur - 1,
                 key \o <<"f", col, ",", row[col + 1]>>)
         \cup RowKeys(num_factors, row, col + 1, t_cur, key)

\* Array::build_row_interactions(row, &row_interactions, 0, t, "")
build_row_interactions(a, row) ==
    {interaction_map_at(a, key) : key \in RowKeys(a.num_factors, row, 0, a.t, <<>>)}

\* the level indices of the factor with the most levels
LevelIndices(a) ==
    UNION {0..(a.factors[c].level - 1) : c \in DOMAIN a.factors}

\* the rows a caller may hand to update_array: one level index per factor
ValidRows(a) ==
    {row \in [1..a.num_factors -> LevelIndices(a)] :
        \A c \in 1..a.num_factors : row[c] < a.factors[c].level}

(***************************************************************************)
(* update_array.                                                           *)
(***************************************************************************)
\* row_sets: all T sets that occur in the row
RowSets(a, row_interactions) ==
    UNION {a.interactions[i].sets : i \in row_interactions}

\* insert_row recording the row under num_tests as it was before the
\* increment
insert_row_before_increment(a, row, row_interactions) ==
    LET n == a.num_tests
        row_sets == RowSets(a, row_interactions)
        hit == UNION {Range(a.interactions[i].singles) : i \in row_interactions}
    IN  [a EXCEPT
            !.rows = Append(@, row),
            !.num_tests = n + 1,
            !.singles = [s \in DOMAIN @ |->
                IF s \in hit THEN [@[s] EXCEPT !.rows = @ \cup {n}] ELSE @[s]],
            !.interactions = [i \in DOMAIN @ |->
                IF i \in row_interactions
                THEN [@[i] EXCEPT !.rows = @ \cup {n}] ELSE @[i]],
            !.sets = [ts \in DOMAIN @ |->
                IF ts \in row_sets THEN [@[ts] EXCEPT !.rows = @ \cup {n}] ELSE @[ts]]]

\* insert_row leaving the T sets of the row without its index
insert_row_without_sets(a, row, row_interactions) ==
    LET n == a.num_tests + 1
        hit == UNION {Range(a.interactions[i].singles) : i \in row_interactions}
    IN  [a EXCEPT
            !.rows = Append(@, row),
            !.num_tests = n,
            !.singles = [s \in DOMAIN @ |->
                IF s \in hit THEN [@[s] EXCEPT !.rows = @ \cup {n}] ELSE @[s]],
            !.interactions = [i \in DOMAIN @ |->
                IF i \in row_interactions
                THEN [@[i] EXCEPT !.rows = @ \cup {n}] ELSE @[i]]]

\* insert_row without num_tests++: the row is recorded under the index of
\* the row before it
insert_row_without_increment(a, row, row_interactions) ==
    LET n == a.num_tests
        row_sets == RowSets(a, row_interactions)
        hit == UNION {Range(a.interactions[i].singles) : i \in row_interactions}
    IN  [a EXCEPT
            !.rows = Append(@, row),
            !.singles = [s \in DOMAIN @ |->
                IF s \in hit THEN [@[s] EXCEPT !.rows = @ \cup {n}] ELSE @[s]],
            !.interactions = [i \in DOMAIN @ |->
                IF i \in row_interactions
                THEN [@[i] EXCEPT !.rows = @ \cup {n}] ELSE @[i]],
            !.sets = [ts \in DOMAIN @ |->
                IF ts \in row_sets THEN [@[ts] EXCEPT !.rows = @ \cup {n}] ELSE @[ts]]]

\* push the row and record its index in every Single, Interaction and T set
\* that occurs in it
insert_row(a, row, row_interactions) ==
    LET n == a.num_tests + 1
        row_sets == RowSets(a, row_interactions)
        hit == UNION {Range(a.interactions[i].singles) : i \in row_interactions}
    IN  [a EXCEPT
            !.rows = Append(@, row),
            !.num_tests = n,
            !.singles = [s \in DOMAIN @ |->
                IF s \in hit THEN [@[s] EXCEPT !.rows = @ \cup {n}] ELSE @[s]],
            !.interactions = [i \in DOMAIN @ |->
                IF i \in row_interactions
                THEN [@[i] EXCEPT !.rows = @ \cup {n}] ELSE @[i]],
            !.sets = [ts \in DOMAIN @ |->
                IF ts \in row_sets THEN [@[ts] EXCEPT !.rows = @ \cup {n}] ELSE @[ts]]]

\* update_coverage that adjusts the counters and leaves is_covered alone
update_coverage_without_flag(a, i) ==
    IF a.interactions[i].is_covered THEN a
    ELSE LET its == a.interactions[i].singles
             cp == a.coverage_problems - 1
         IN  [a EXCEPT
                !.singles = add_c_issues(@, its, -1),
                !.score = @ - Len(its) - 1,
                !.coverage_problems = cp,
                !.is_covering = IF cp = 0 THEN TRUE ELSE @]

\* coverage of one Interaction of the row
update_coverage(a, i) ==
    IF a.interactions[i].is_covered THEN a
    ELSE LET its == a.interactions[i].singles
             cp == a.coverage_problems - 1
         IN  [a EXCEPT
                !.interactions[i].is_covered = TRUE,
                !.singles = add_c_issues(@, its, -1),
                !.score = @ - Len(its) - 1,
                !.coverage_problems = cp,
                !.is_covering = IF cp = 0 THEN TRUE ELSE @]

\* update_detection asking for a separation above delta, not of delta
update_detection_strict(a, i, row_sets) ==
    IF a.p # "all" \/ a.interactions[i].is_detectable THEN a
    ELSE LET its == a.interactions[i].singles
             old == a.interactions[i].deltas
             other_sets == row_sets \ a.interactions[i].sets
             balanced == Cardinality({ts \in other_sets : old[ts] <= a.delta})
             mid == [ts \in DOMAIN old |->
                        IF ts \in other_sets THEN old[ts] - 1 ELSE old[ts]]
             new == [ts \in DOMAIN mid |-> mid[ts] + 1]
             detectable == \A ts \in DOMAIN new : ~(new[ts] <= a.delta)
             solved == Cardinality({ts \in DOMAIN new : new[ts] <= a.delta})
             dp == a.detection_problems - 1
             a1 == [a EXCEPT
                      !.interactions[i].deltas = new,
                      !.interactions[i].is_detectable = detectable,
                      !.singles = add_d_issues(@, its, balanced - solved),
                      !.score = @ + Len(its) * balanced - Len(its) * solved]
         IN  IF detectable
             THEN [a1 EXCEPT !.score = @ - 1,
                             !.detection_problems = dp,
                             !.is_detecting = IF dp = 0 THEN TRUE ELSE @]
             ELSE a1

\* update_detection without the decrement for the T sets of the row: every
\* row of the Interaction counts as a row of separation
update_detection_counting_every_row(a, i, row_sets) ==
    IF a.p # "all" \/ a.interactions[i].is_detectable THEN a
    ELSE LET its == a.interactions[i].singles
             old == a.interactions[i].deltas
             new == [ts \in DOMAIN old |-> old[ts] + 1]
             detectable == \A ts \in DOMAIN new : ~(new[ts] < a.delta)
             solved == Cardinality({ts \in DOMAIN new : new[ts] <= a.delta})
             dp == a.detection_problems - 1
             a1 == [a EXCEPT
                      !.interactions[i].deltas = new,
                      !.interactions[i].is_detectable = detectable,
                      !.singles = add_d_issues(@, its, -solved),
                      !.score = @ - Len(its) * solved]
         IN  IF detectable
             THEN [a1 EXCEPT !.score = @ - 1,
                             !.detection_problems = dp,
                             !.is_detecting = IF dp = 0 THEN TRUE ELSE @]
             ELSE a1

\* update_detection whose second loop leaves the deltas as they are
update_detection_without_increment(a, i, row_sets) ==
    IF a.p # "all" \/ a.interactions[i].is_detectable THEN a
    ELSE LET its == a.interactions[i].singles
             old == a.interactions[i].deltas
             other_sets == row_sets \ a.interactions[i].sets
             balanced == Cardinality({ts \in other_sets : old[ts] <= a.delta})
             new == [ts \in DOMAIN old |->
                        IF ts \in other_sets THEN old[ts] - 1 ELSE old[ts]]
             detectable == \A ts \in DOMAIN new : ~(new[ts] < a.delta)
             solved == Cardinality({ts \in DOMAIN new : new[ts] <= a.delta})
             dp == a.detection_problems - 1
             a1 == [a EXCEPT
                      !.interactions[i].deltas = new,
                      !.interactions[i].is_detectable = detectable,
                      !.singles = add_d_issues(@, its, balanced - solved),
                      !.score = @ + Len(its) * balanced - Len(its) * solved]
         IN  IF detectable
             THEN [a1 EXCEPT !.score = @ - 1,
                             !.detection_problems = dp,
                             !.is_detecting = IF dp = 0 THEN TRUE ELSE @]
             ELSE a1

\* detection of one Interaction of the row
update_detection(a, i, row_sets) ==
    IF a.p # "all" \/ a.interactions[i].is_detectable THEN a
    ELSE LET its == a.interactions[i].singles
             old == a.interactions[i].deltas
             other_sets == row_sets \ a.interactions[i].sets
             \* first loop: balance, then decrement, for T sets of this row
             balanced == Cardinality({ts \in other_sets : old[ts] <= a.delta})
             mid == [ts \in DOMAIN old |->
                        IF ts \in other_sets THEN old[ts] - 1 ELSE old[ts]]
             \* second loop: every delta goes up by one
             new == [ts \in DOMAIN mid |-> mid[ts] + 1]
             detectable == \A ts \in DOMAIN new : ~(new[ts] < a.delta)
             solved == Cardinality({ts \in DOMAIN new : new[ts] <= a.delta})
             dp == a.detection_problems - 1
             a1 == [a EXCEPT
                      !.interactions[i].deltas = new,
                      !.interactions[i].is_detectable = detectable,
                      !.singles = add_d_issues(@, its, balanced - solved),
                      !.score = @ + Len(its) * balanced - Len(its) * solved]
         IN  IF detectable
             THEN [a1 EXCEPT !.score = @ - 1,
                             !.detection_problems = dp,
                             !.is_detecting = IF dp = 0 THEN TRUE ELSE @]
             ELSE a1

\* the loop over row_interactions: coverage, then detection, of each
RECURSIVE interactions_loop(_, _, _, _)
interactions_loop(a, todo, row_sets, order) ==
    IF todo = {} THEN a
    ELSE LET i == Pick(todo, order)
         IN  interactions_loop(update_detection(update_coverage(a, i), i, row_sets),
                               todo \ {i}, row_sets, order)

\* first_appearance that assumes no conflict with the other T sets of the row
first_appearance_without_conflicts(a, t1, row_sets) ==
    LET its == a.sets[t1].singles
        n == Len(a.sets)
    IN  [a EXCEPT
            !.singles = add_l_issues(@, its, -n),
            !.score = @ - n * Len(its)]

\* first_appearance that takes every other T set of the row for a conflict,
\* the ones that had rows before included
first_appearance_with_every_set(a, t1, row_sets) ==
    LET its == a.sets[t1].singles
        n == Len(a.sets)
        fresh == row_sets \ {t1}
    IN  [a EXCEPT
            !.sets[t1].location_conflicts = @ \cup fresh,
            !.singles = add_l_issues(@, its, Cardinality(fresh) - n),
            !.score = @ - n * Len(its) + Cardinality(fresh) * Len(its)]

\* t1 has its first row: its budget of sets.size() issues per Single is
\* replaced by one issue per other T set that is new in this row
first_appearance(a, t1, row_sets) ==
    LET its == a.sets[t1].singles
        n == Len(a.sets)
        fresh == {t2 \in row_sets : ~(t1 = t2 \/ Cardinality(a.sets[t2].rows) > 1)}
    IN  [a EXCEPT
            !.sets[t1].location_conflicts = @ \cup fresh,
            !.singles = add_l_issues(@, its, Cardinality(fresh) - n),
            !.score = @ - n * Len(its) + Cardinality(fresh) * Len(its)]

\* solve_conflict that never flags the partner t2 locatable
solve_conflict_without_flag(st, t1, t2) ==
    LET a == st.a
        st1 == [st EXCEPT !.temp = @ \ {t2}, !.solved = @ + 1]
    IN  IF t1 \in a.sets[t2].location_conflicts
        THEN [st1 EXCEPT !.a =
                [a EXCEPT
                    !.sets[t2].location_conflicts = @ \ {t1},
                    !.singles = add_l_issues(@, a.sets[t2].singles, -1),
                    !.score = @ - Len(a.sets[t2].singles)]]
        ELSE [st1 EXCEPT !.a.exited = TRUE]

\* solve_conflict that takes t2 out of t1's conflicts and leaves t2's alone
solve_conflict_one_sided(st, t1, t2) ==
    [st EXCEPT !.temp = @ \ {t2}, !.solved = @ + 1]

\* one conflict t2 of t1 that is not in this row: st = [a, temp, solved]
solve_conflict(st, t1, t2) ==
    LET a == st.a
        st1 == [st EXCEPT !.temp = @ \ {t2}, !.solved = @ + 1]
    IN  IF t1 \in a.sets[t2].location_conflicts
        THEN LET left == a.sets[t2].location_conflicts \ {t1}
                 a1 == [a EXCEPT
                          !.sets[t2].location_conflicts = left,
                          !.singles = add_l_issues(@, a.sets[t2].singles, -1),
                          !.score = @ - Len(a.sets[t2].singles)]
             IN  IF left = {}
                 THEN [st1 EXCEPT !.a =
                        [a1 EXCEPT !.sets[t2].is_locatable = TRUE,
                                   !.score = @ - 1,
                                   !.location_problems = @ - 1,
                                   !.exited = (a1.location_problems - 1 = 0)]]
                 ELSE [st1 EXCEPT !.a = a1]
        ELSE [st1 EXCEPT !.a.exited = TRUE]

\* the loop over t1->location_conflicts; exit(-1) ends it
RECURSIVE conflicts_loop(_, _, _, _, _)
conflicts_loop(st, t1, todo, row_sets, order) ==
    IF todo = {} \/ st.a.exited THEN st
    ELSE LET t2 == Pick(todo, order)
         IN  conflicts_loop(IF t2 \in row_sets THEN st ELSE solve_conflict(st, t1, t2),
                            t1, todo \ {t2}, row_sets, order)

\* t1 had rows before: conflicts with T sets outside this row are solved
later_appearance(a, t1, row_sets, order) ==
    LET st == conflicts_loop([a |-> a, temp |-> a.sets[t1].location_conflicts, solved |-> 0],
                             t1, a.sets[t1].location_conflicts, row_sets, order)
        its == a.sets[t1].singles
    IN  IF st.a.exited THEN st.a
        ELSE [st.a EXCEPT
                !.singles = add_l_issues(@, its, -st.solved),
                !.score = @ - st.solved * Len(its),
                !.sets[t1].location_conflicts = st.temp]

\* update_location that never sets is_locating
update_location_without_is_locating(a, t1, row_sets, order) ==
    IF a.sets[t1].is_locatable THEN a
    ELSE LET a1 == IF Cardinality(a.sets[t1].rows) = 1
                   THEN first_appearance(a, t1, row_sets)
                   ELSE later_appearance(a, t1, row_sets, order)
         IN  IF a1.exited THEN a1
             ELSE IF Cardinality(a1.sets[t1].location_conflicts) = 0
             THEN [a1 EXCEPT !.sets[t1].is_locatable = TRUE,
                             !.score = @ - 1,
                             !.location_problems = @ - 1]
             ELSE a1

\* location of one T set of the row
update_location(a, t1, row_sets, order) ==
    IF a.sets[t1].is_locatable THEN a
    ELSE LET a1 == IF Cardinality(a.sets[t1].rows) = 1
                   THEN first_appearance(a, t1, row_sets)
                   ELSE later_appearance(a, t1, row_sets, order)
             lp == a1.location_problems - 1
         IN  IF a1.exited THEN a1
             ELSE IF Cardinality(a1.sets[t1].location_conflicts) = 0
             THEN [a1 EXCEPT !.sets[t1].is_locatable = TRUE,
                             !.score = @ - 1,
                             !.location_problems = lp,
                             !.is_locating = IF lp = 0 THEN TRUE ELSE @]
             ELSE a1

\* the loop over row_sets; exit(-1) ends it
RECURSIVE sets_loop(_, _, _, _)
sets_loop(a, todo, row_sets, order) ==
    IF todo = {} \/ a.exited THEN a
    ELSE LET t1 == Pick(todo, order)
         IN  sets_loop(update_location(a, t1, row_sets, order),
                       todo \ {t1}, row_sets, order)

\* remove_row that leaves the row in the rows of the T sets
remove_row_leaving_sets(a, row_interactions, row_sets) ==
    LET n == a.num_tests
        hit == UNION {Range(a.interactions[i].singles) : i \in row_interactions}
    IN  [a EXCEPT
            !.singles = [s \in DOMAIN @ |->
                IF s \in hit THEN [@[s] EXCEPT !.rows = @ \ {n}] ELSE @[s]],
            !.interactions = [i \in DOMAIN @ |->
                IF i \in row_interactions THEN [@[i] EXCEPT !.rows = @ \ {n}] ELSE @[i]],
            !.num_tests = n - 1,
            !.rows = SubSeq(@, 1, Len(@) - 1)]

\* keep == false: take the row out of every rows set again and pop it
remove_row(a, row_interactions, row_sets) ==
    LET n == a.num_tests
        hit == UNION {Range(a.interactions[i].singles) : i \in row_interactions}
    IN  [a EXCEPT
            !.singles = [s \in DOMAIN @ |->
                IF s \in hit THEN [@[s] EXCEPT !.rows = @ \ {n}] ELSE @[s]],
            !.interactions = [i \in DOMAIN @ |->
                IF i \in row_interactions THEN [@[i] EXCEPT !.rows = @ \ {n}] ELSE @[i]],
            !.sets = [ts \in DOMAIN @ |->
                IF ts \in row_sets THEN [@[ts] EXCEPT !.rows = @ \ {n}] ELSE @[ts]],
            !.num_tests = n - 1,
            !.rows = SubSeq(@, 1, Len(@) - 1)]

\* Array::update_array(row, row_interactions, keep); order is the order in
\* which the pointer-keyed sets are traversed
update_array(a, row, row_interactions, keep, order) ==
    LET row_sets == RowSets(a, row_interactions)
        a1 == insert_row(a, row, row_interactions)
        a2 == interactions_loop(a1, row_interactions, row_sets, order)
        a3 == IF a2.p # "c_only" /\ ~a2.is_locating
              THEN sets_loop(a2, row_sets, row_sets, order) ELSE a2
    IN  IF a3.exited \/ keep THEN a3
        ELSE remove_row(a3, row_interactions, row_sets)

(***************************************************************************)
(* clone.                                                                  *)
(***************************************************************************)
\* the constructor clone() uses, with the deltas of every Interaction set up
\* at 0 (the loop the source holds in a comment)
CloneArray_with_deltas(o) ==
    LET levels == [c \in DOMAIN o.factors |-> o.factors[c].level]
        built == build_t_way_interactions(levels, 0, 0, o.t, <<>>)
        fresh == [s \in SinglePointers(levels) |-> NewSingle(s[1], s[2])]
        inters == [k \in DOMAIN built |-> NewInteraction(fresh, built[k])]
        touched == AllSingles(inters)
        a1 == [DefaultArray EXCEPT
                !.total_problems = o.total_problems + Len(touched),
                !.coverage_problems = o.coverage_problems,
                !.location_problems = o.location_problems,
                !.detection_problems = o.detection_problems,
                !.score = Len(touched),
                !.d = o.d, !.t = o.t, !.delta = o.delta,
                !.num_tests = o.num_tests, !.num_factors = o.num_factors,
                !.p = o.p,
                !.factors = [c \in DOMAIN levels |-> [id |-> c - 1, level |-> levels[c]]],
                !.singles = add_c_issues(fresh, touched, 1),
                !.interactions = inters]
        sets_built == build_size_d_sets(Len(inters), 0, o.d, <<>>)
    IN  IF o.p = "c_only" THEN a1
        ELSE [a1 EXCEPT
                !.sets = [k \in DOMAIN sets_built |-> NewT(inters, sets_built[k])],
                !.interactions = [i \in DOMAIN inters |->
                    [inters[i] EXCEPT
                        !.sets = {k \in DOMAIN sets_built : i \in Range(sets_built[k])},
                        !.deltas = [k \in {j \in DOMAIN sets_built :
                                                i \notin Range(sets_built[j])} |-> 0]]],
                !.rows = o.rows]

\* Array::Array(total_problems_o, ..., delta_o): the constructor clone() uses
CloneArray(o) ==
    LET levels == [c \in DOMAIN o.factors |-> o.factors[c].level]
        built == build_t_way_interactions(levels, 0, 0, o.t, <<>>)
        fresh == [s \in SinglePointers(levels) |-> NewSingle(s[1], s[2])]
        inters == [k \in DOMAIN built |-> NewInteraction(fresh, built[k])]
        touched == AllSingles(inters)
        a1 == [DefaultArray EXCEPT
                !.total_problems = o.total_problems + Len(touched),
                !.coverage_problems = o.coverage_problems,
                !.location_problems = o.location_problems,
                !.detection_problems = o.detection_problems,
                !.score = Len(touched),
                !.d = o.d, !.t = o.t, !.delta = o.delta,
                !.num_tests = o.num_tests, !.num_factors = o.num_factors,
                !.p = o.p,
                !.factors = [c \in DOMAIN levels |-> [id |-> c - 1, level |-> levels[c]]],
                !.singles = add_c_issues(fresh, touched, 1),
                !.interactions = inters]
        sets_built == build_size_d_sets(Len(inters), 0, o.d, <<>>)
    IN  IF o.p = "c_only" THEN a1
        ELSE [a1 EXCEPT
                !.sets = [k \in DOMAIN sets_built |-> NewT(inters, sets_built[k])],
                !.interactions = [i \in DOMAIN inters |->
                    [inters[i] EXCEPT
                        !.sets = {k \in DOMAIN sets_built : i \in Range(sets_built[k])}]],
                !.rows = o.rows]

\* the fingerprints of the T sets of an array, in the order of its sets vector
RECURSIVE TStrings(_, _)
TStrings(a, k) ==
    IF k > Len(a.sets) THEN <<>>
    ELSE <<TToString(a.interactions, a.sets[k].interactions)>> \o TStrings(a, k + 1)

\* the fingerprints of the Interactions of an array, in the order of its vector
RECURSIVE InteractionStrings(_, _)
InteractionStrings(a, k) ==
    IF k > Len(a.interactions) THEN <<>>
    ELSE <<InteractionToString(a.interactions[k].singles)>> \o InteractionStrings(a, k + 1)

\* a value with its function constructors evaluated once (TLC applies an
\* unevaluated constructor anew at every use; a comparison evaluates it)
Evaluated(v) == IF v = v THEN v ELSE v

\* map.at(key) of a fingerprint map given as the vector of the keys
MapAt(keys, key) == CHOOSE k \in DOMAIN keys : keys[k] = key

\* Array::clone()
clone(a) ==
    LET c0 == CloneArray(a)
        this_i == InteractionStrings(a, 1)
        clone_i == InteractionStrings(c0, 1)
        this_t == TStrings(a, 1)
        clone_t == TStrings(c0, 1)
        \* clone->single_map.at(this_s->to_string()), and the same for the
        \* Interactions and the T sets
        s_in_clone == Evaluated([s \in DOMAIN a.singles |->
                        CHOOSE cs \in DOMAIN c0.singles :
                            SingleToString(cs) = SingleToString(s)])
        i_in_clone == Evaluated([i \in DOMAIN a.interactions |-> MapAt(clone_i, this_i[i])])
        t_in_clone == Evaluated([ts \in DOMAIN a.sets |-> MapAt(clone_t, this_t[ts])])
        \* the object of the original that is copied into an object of the clone
        s_of == Evaluated([cs \in DOMAIN c0.singles |->
                        CHOOSE s \in DOMAIN a.singles : s_in_clone[s] = cs])
        i_of == Evaluated([ci \in DOMAIN c0.interactions |->
                        CHOOSE i \in DOMAIN a.interactions : i_in_clone[i] = ci])
        t_of == Evaluated([ct \in DOMAIN c0.sets |->
                        CHOOSE ts \in DOMAIN a.sets : t_in_clone[ts] = ct])
    IN  Evaluated([c0 EXCEPT
            !.score = a.score,
            !.is_covering = a.is_covering,
            !.is_locating = a.is_locating,
            !.is_detecting = a.is_detecting,
            !.singles = [cs \in DOMAIN @ |->
                LET this_s == a.singles[s_of[cs]]
                IN  [@[cs] EXCEPT !.rows = this_s.rows,
                                  !.c_issues = this_s.c_issues,
                                  !.l_issues = this_s.l_issues,
                                  !.d_issues = this_s.d_issues]],
            !.interactions = [ci \in DOMAIN @ |->
                LET this == a.interactions[i_of[ci]]
                IN  [@[ci] EXCEPT
                        !.rows = this.rows,
                        !.is_covered = this.is_covered,
                        !.is_detectable = this.is_detectable,
                        \* deltas.insert() leaves a key that is there alone
                        !.deltas = [ct \in DOMAIN @ \cup
                                            {t_in_clone[ts] : ts \in DOMAIN this.deltas}
                                      |-> IF ct \in DOMAIN c0.interactions[ci].deltas
                                          THEN c0.interactions[ci].deltas[ct]
                                          ELSE this.deltas[t_of[ct]]]]],
            !.sets = [ct \in DOMAIN @ |->
                LET this == a.sets[t_of[ct]]
                IN  [@[ct] EXCEPT
                        !.rows = this.rows,
                        !.is_locatable = this.is_locatable,
                        !.location_conflicts =
                            @ \cup {t_in_clone[other] : other \in this.location_conflicts}]]])

(***************************************************************************)
(* Row construction (heuristics.cpp).  rand() may return any value, so an  *)
(* operator that draws from it yields the set of its possible results.     *)
(* A candidate row travels as [row, crashed]: crashed records that         *)
(* interaction_map.at() threw (the row held a value that is no level of    *)
(* its factor), which nothing catches.                                     *)
(***************************************************************************)
\* heuristic_in_use values
Heuristics ==
    {"c_only", "c_and_l", "c_and_d", "l_only", "l_and_d", "d_only", "all", "none"}

\* smallest value of the counters that start at INT64_MIN or INT32_MIN
INT_MIN == -2147483647

IsRow(a, row) == \A c \in 1..a.num_factors : row[c] \in 0..(a.factors[c].level - 1)

\* the permutations the shuffle at the start of add_row can leave behind;
\* size counts down from num_factors
RECURSIVE Shuffle(_, _)
Shuffle(permutation, size) ==
    IF size = 0 THEN {permutation}
    ELSE UNION {Shuffle([permutation EXCEPT ![size] = permutation[rand_idx + 1],
                                            ![rand_idx + 1] = permutation[size]],
                        size - 1) : rand_idx \in 0..(size - 1)}

\* Array::initialize_row_R()
initialize_row_R(a) == ValidRows(a)

\* the column is a don't care of the phase
IsDontCare(a, col) ==
    \/ a.p = "all" /\ a.dont_cares[col + 1] = "all"
    \/ a.p = "c_and_l" /\ a.dont_cares[col + 1] = "c_and_l"
    \/ a.p = "c_only" /\ a.dont_cares[col + 1] = "c_only"

SingleScore(a, s) ==
    a.singles[s].c_issues + a.singles[s].l_issues + 3 * a.singles[s].d_issues

\* the scan that keeps the Single with the lower score
RECURSIVE WorstSingle_keeping_lower(_, _, _, _)
WorstSingle_keeping_lower(a, col, val, worst) ==
    IF val >= a.factors[col + 1].level THEN {worst}
    ELSE LET cur_score == SingleScore(a, <<col, val>>)
             worst_score == SingleScore(a, <<col, worst>>)
         IN  IF cur_score < worst_score
             THEN WorstSingle_keeping_lower(a, col, val + 1, val)
             ELSE IF cur_score = worst_score
             THEN WorstSingle_keeping_lower(a, col, val + 1, val)
                    \cup WorstSingle_keeping_lower(a, col, val + 1, worst)
             ELSE WorstSingle_keeping_lower(a, col, val + 1, worst)

\* the scan for the worst Single of a column, from level val on
RECURSIVE WorstSingle(_, _, _, _)
WorstSingle(a, col, val, worst) ==
    IF val >= a.factors[col + 1].level THEN {worst}
    ELSE LET cur_score == SingleScore(a, <<col, val>>)
             worst_score == SingleScore(a, <<col, worst>>)
         IN  IF cur_score > worst_score THEN WorstSingle(a, col, val + 1, val)
             ELSE IF cur_score = worst_score
             THEN WorstSingle(a, col, val + 1, val) \cup WorstSingle(a, col, val + 1, worst)
             ELSE WorstSingle(a, col, val + 1, worst)

\* the rows the loop of initialize_row_S can hold after its first cols columns
RECURSIVE initialize_row_S_cols(_, _)
initialize_row_S_cols(a, cols) ==
    IF cols = 0 THEN {<<>>}
    ELSE {Append(row, val) :
            row \in initialize_row_S_cols(a, cols - 1),
            val \in IF IsDontCare(a, cols - 1)
                    THEN 0..(a.factors[cols].level - 1)
                    ELSE WorstSingle(a, cols - 1, 1, 0)}

\* Array::initialize_row_S()
initialize_row_S(a) == initialize_row_S_cols(a, a.num_factors)

\* the T sets with the most location conflicts, scanning from position k
RECURSIVE WorstSets(_, _, _, _)
WorstSets(a, k, worst_count, worst_sets) ==
    IF k > Len(a.sets) THEN worst_sets
    ELSE LET size == Cardinality(a.sets[k].location_conflicts)
         IN  IF size >= worst_count
             THEN WorstSets(a, k + 1, IF size > worst_count THEN size ELSE worst_count,
                            (IF size > worst_count THEN {} ELSE worst_sets) \cup {k})
             ELSE WorstSets(a, k + 1, worst_count, worst_sets)

\* the Singles of the locked T set are not written into the row
LockSingles_leaving_row(row, singles) == row

\* new_row[s->factor] = s->value for the Singles of the locked T set, in order
RECURSIVE LockSingles(_, _)
LockSingles(row, singles) ==
    IF singles = <<>> THEN row
    ELSE LockSingles([row EXCEPT ![Head(singles)[1] + 1] = Head(singles)[2]],
                     Tail(singles))

\* Array::initialize_row_T(&locked): the pairs [row, locked]; with no T set
\* to choose from the draw is rand() % 0 and the process dies
initialize_row_T(a) ==
    LET worst_sets == WorstSets(a, 1, INT_MIN, {})
    IN  IF worst_sets = {} THEN {[row |-> <<>>, locked |-> 0, crashed |-> TRUE]}
        ELSE {[row |-> LockSingles(row, a.sets[locked].singles), locked |-> locked,
               crashed |-> FALSE] :
                    row \in initialize_row_R(a), locked \in worst_sets}

\* heuristic_l_only that takes the last of the levels with the highest score
heuristic_l_only_taking_last(a, row, locked) ==
    LET locked_factors == {s[1] : s \in Range(a.sets[locked].singles)}
        conflicts == a.sets[locked].location_conflicts
        scores == [s \in DOMAIN a.singles |->
            SumSet(conflicts, [ts \in conflicts |-> Count(a.sets[ts].singles, s)])]
        RECURSIVE Best(_, _, _, _)
        Best(col, val, best_val, best_val_score) ==
            IF val >= a.factors[col + 1].level
            THEN [best_val |-> best_val, best_val_score |-> best_val_score]
            ELSE IF scores[<<col, val>>] >= best_val_score
                 THEN Best(col, val + 1, val, scores[<<col, val>>])
                 ELSE Best(col, val + 1, best_val, best_val_score)
    IN  [c \in 1..a.num_factors |->
            IF (c - 1) \in locked_factors THEN row[c]
            ELSE LET best == Best(c - 1, 0, row[c], 0)
                 IN  IF best.best_val_score # 0 THEN best.best_val ELSE row[c]]

\* Array::heuristic_l_only(row, locked)
heuristic_l_only(a, row, locked) ==
    LET locked_factors == {s[1] : s \in Range(a.sets[locked].singles)}
        conflicts == a.sets[locked].location_conflicts
        \* scores.at(s->to_string())++ for every Single of every conflicting T set
        scores == [s \in DOMAIN a.singles |->
            SumSet(conflicts, [ts \in conflicts |-> Count(a.sets[ts].singles, s)])]
        \* the scan of one column: [best_val, best_val_score] from level val on
        RECURSIVE Best(_, _, _, _)
        Best(col, val, best_val, best_val_score) ==
            IF val >= a.factors[col + 1].level
            THEN [best_val |-> best_val, best_val_score |-> best_val_score]
            ELSE IF scores[<<col, val>>] > best_val_score
                 THEN Best(col, val + 1, val, scores[<<col, val>>])
                 ELSE Best(col, val + 1, best_val, best_val_score)
    IN  [c \in 1..a.num_factors |->
            IF (c - 1) \in locked_factors THEN row[c]
            ELSE LET best == Best(c - 1, 0, row[c], 0)
                 IN  IF best.best_val_score # 0 THEN best.best_val ELSE row[c]]

\* the problems[] counts one pass over the Interactions of a row adds to
\* problems; skipped holds the covered Interactions that are left out
ScoreProblems(a, problems, row_interactions, skipped) ==
    [f \in DOMAIN problems |->
        problems[f]
        + Cardinality({i \in row_interactions :
                /\ Cardinality(a.interactions[i].rows) # 0
                /\ i \notin skipped
                /\ \E s \in Range(a.interactions[i].singles) : s[1] = f})
        - Cardinality({i \in row_interactions :
                /\ Cardinality(a.interactions[i].rows) = 0
                /\ \E s \in Range(a.interactions[i].singles) : s[1] = f})]

\* largest entry of problems over the columns in cols, starting from low
MaxProblems(problems, cols, low) ==
    IF \E c \in cols : problems[c] > low
    THEN CHOOSE m \in {problems[c] : c \in cols} : \A c \in cols : problems[c] <= m
    ELSE low

\* Array::heuristic_c_helper(row, row_interactions, problems):
\* [problems, max_problems]
heuristic_c_helper(a, row, row_interactions, problems) ==
    LET scored == ScoreProblems(a, problems, row_interactions,
                    {i \in row_interactions :
                        \E s \in Range(a.interactions[i].singles) :
                            a.singles[s].c_issues = 0})
        open == {c \in DOMAIN problems : a.singles[<<c, row[c + 1]>>].c_issues # 0}
    IN  [problems |-> scored, max_problems |-> MaxProblems(scored, open, INT_MIN)]

\* the trials of one factor tied at the maximum: i counts the values tried;
\* the result is [row, crashed, improved]
RECURSIVE c_only_trials(_, _, _, _, _, _)
c_only_trials(a, row, pc, i, temp_problems, max_problems) ==
    IF i >= a.factors[pc + 1].level
    THEN [row |-> row, crashed |-> FALSE, improved |-> FALSE]
    ELSE LET tried == [row EXCEPT ![pc + 1] = (row[pc + 1] + 1) % a.factors[pc + 1].level]
         IN  IF ~IsRow(a, tried)
             THEN [row |-> tried, crashed |-> TRUE, improved |-> FALSE]
             ELSE LET res == heuristic_c_helper(a, tried, build_row_interactions(a, tried),
                                                temp_problems)
                  IN  IF res.max_problems < max_problems
                      THEN [row |-> tried, crashed |-> FALSE, improved |-> TRUE]
                      ELSE c_only_trials(a, tried, pc, i + 1, res.problems, max_problems)

\* the loop that alters the factors with the most problems, from position col
RECURSIVE c_only_alter(_, _, _, _, _, _)
c_only_alter(a, permutation, row, col, problems, max_problems) ==
    IF col >= a.num_factors THEN [row |-> row, crashed |-> FALSE, improved |-> FALSE]
    ELSE LET pc == permutation[col + 1]
         IN  IF problems[pc] # max_problems
             THEN c_only_alter(a, permutation, row, col + 1, problems, max_problems)
             ELSE LET res == c_only_trials(a, row, pc, 1,
                                           [f \in DOMAIN problems |-> 0], max_problems)
                      \* the value is put back modulo the level of factor col
                      back == [res.row EXCEPT ![pc + 1] =
                                  (res.row[pc + 1] + 1) % a.factors[col + 1].level]
                  IN  IF res.crashed \/ res.improved THEN res
                      ELSE c_only_alter(a, permutation, back, col + 1,
                                        problems, max_problems)

\* the values of one factor tried in the last resort: i counts the values
\* tried; the result is [row, crashed, improved, dont_cares_c]
RECURSIVE c_only_expose(_, _, _, _, _)
c_only_expose(a, row, pc, i, dont_cares_c) ==
    IF i >= a.factors[pc + 1].level
    THEN [row |-> row, crashed |-> FALSE, improved |-> FALSE, dont_cares_c |-> dont_cares_c]
    ELSE LET tried == [row EXCEPT ![pc + 1] = (row[pc + 1] + 1) % a.factors[pc + 1].level]
         IN  IF ~IsRow(a, tried)
             THEN [row |-> tried, crashed |-> TRUE, improved |-> FALSE,
                   dont_cares_c |-> dont_cares_c]
             ELSE LET missing == {n \in build_row_interactions(a, tried) :
                                    Cardinality(a.interactions[n].rows) = 0}
                      marked == {s[1] : s \in UNION {Range(a.interactions[n].singles) :
                                                        n \in missing}}
                  IN  IF missing # {}
                      THEN [row |-> tried, crashed |-> FALSE, improved |-> TRUE,
                            dont_cares_c |-> [c \in DOMAIN dont_cares_c |->
                                IF (c - 1) \in marked THEN "c_only" ELSE dont_cares_c[c]]]
                      ELSE c_only_expose(a, tried, pc, i + 1, dont_cares_c)

\* the last resort, from position col: the rows it can end with
RECURSIVE c_only_last_resort(_, _, _, _, _)
c_only_last_resort(a, permutation, row, col, dont_cares_c) ==
    IF col >= a.num_factors THEN {[row |-> row, crashed |-> FALSE]}
    ELSE LET pc == permutation[col + 1]
             res == c_only_expose(a, row, pc, 0, dont_cares_c)
         IN  IF dont_cares_c[pc + 1] # "none"
             THEN c_only_last_resort(a, permutation, row, col + 1, dont_cares_c)
             ELSE IF res.crashed THEN {[row |-> res.row, crashed |-> TRUE]}
             ELSE IF res.improved
             THEN c_only_last_resort(a, permutation, res.row, col + 1, res.dont_cares_c)
             ELSE UNION {c_only_last_resort(a, permutation,
                                            [res.row EXCEPT ![pc + 1] = v],
                                            col + 1, res.dont_cares_c) :
                            v \in 0..(a.factors[pc + 1].level - 1)}

\* Array::heuristic_c_only(row): the rows it can leave, for a row of levels
heuristic_c_only(a, permutation, row) ==
    LET problems == ScoreProblems(a, [f \in 0..(a.num_factors - 1) |-> 0],
                        build_row_interactions(a, row),
                        {i \in build_row_interactions(a, row) :
                            \E s \in Range(a.interactions[i].singles) :
                                a.dont_cares[s[1] + 1] # "none"})
        max_problems == MaxProblems(problems, DOMAIN problems, 0)
        altered == c_only_alter(a, permutation, row, 0, problems, max_problems)
    IN  IF max_problems = 0 THEN {[row |-> row, crashed |-> FALSE]}
        ELSE IF altered.crashed \/ altered.improved
        THEN {[row |-> altered.row, crashed |-> altered.crashed]}
        ELSE c_only_last_resort(a, permutation, altered.row, 0, a.dont_cares)

\* heuristic_all_helper that does not put temp back into the row after a
\* level is tried: the next offset is added to the value just tried
RECURSIVE heuristic_all_helper_without_temp(_, _, _, _, _)
heuristic_all_helper_without_temp(a, permutation, row, cur_col, offset) ==
    IF cur_col = a.num_factors THEN <<row>>
    ELSE LET pc == permutation[cur_col + 1]
             tried == [row EXCEPT ![pc + 1] =
                            (row[pc + 1] + offset) % a.factors[pc + 1].level]
         IN  IF offset >= a.factors[pc + 1].level THEN <<>>
             ELSE heuristic_all_helper_without_temp(a, permutation, tried, cur_col + 1, 0)
                  \o heuristic_all_helper_without_temp(a, permutation, tried,
                                                        cur_col, offset + 1)

\* Array::heuristic_all_helper(row, cur_col, &scores): the candidate rows in
\* the order they are handed to the scorer; offset is the loop position
RECURSIVE heuristic_all_helper(_, _, _, _, _)
heuristic_all_helper(a, permutation, row, cur_col, offset) ==
    IF cur_col = a.num_factors THEN <<row>>
    ELSE LET pc == permutation[cur_col + 1]
         IN  IF offset >= a.factors[pc + 1].level THEN <<>>
             ELSE heuristic_all_helper(a, permutation,
                    [row EXCEPT ![pc + 1] = (row[pc + 1] + offset) % a.factors[pc + 1].level],
                    cur_col + 1, 0)
                  \o heuristic_all_helper(a, permutation, row, cur_col, offset + 1)

\* Array::heuristic_all_scorer(row, &scores): the entry put into scores,
\* [row, row_score, exited, undefined]; exited tells that the trial commit
\* on the copy ended the process, undefined that delete copy ran
\* delete[] rows[i] outside the row list of the copy (Array::~Array() goes
\* up to num_tests), which frees what is no row of the copy.  fresh is what
\* clone() returns: it depends on the array alone, so that the caller
\* computes it once for all rows
heuristic_all_scorer(a, fresh, row, order) ==
    LET copy == update_array(fresh, row, build_row_interactions(fresh, row), FALSE, order)
        weight(s) == a.factors[s[1] + 1].level
        gain(s) ==
            weight(s) * (a.singles[s].c_issues - copy.singles[s].c_issues)
            + 2 * weight(s) * (a.singles[s].l_issues - copy.singles[s].l_issues)
            + 3 * weight(s) * (a.singles[s].d_issues - copy.singles[s].d_issues)
    IN  [row |-> row, exited |-> copy.exited,
         undefined |-> Len(copy.rows) < copy.num_tests,
         row_score |-> SumSet(DOMAIN a.singles, [s \in DOMAIN a.singles |-> gain(s)])]

\* the scores map heuristic_all_helper(row, 0, &scores) fills: a key is the
\* row_copy allocated for a candidate, the k-th allocation here, and an entry
\* what heuristic_all_scorer inserts under it
heuristic_all_scores(a, permutation, row, order) ==
    LET candidates == heuristic_all_helper(a, permutation, row, 0, 0)
        fresh == clone(a)
    IN  [k \in DOMAIN candidates |-> heuristic_all_scorer(a, fresh, candidates[k], order)]

\* Array::heuristic_all(row): the rows it can leave in place; scored holds
\* what heuristic_all_scorer puts into scores for each candidate row.  Once
\* a scorer has freed memory it did not own, the candidate rows and the keys
\* of scores are not to be relied on: the process ends, or some row is left
\* in place (a row that is no row of the array ends the process in add_row)
heuristic_all(a, permutation, row, scored) ==
    LET candidates == heuristic_all_helper(a, permutation, row, 0, 0)
        scores == {<<k, CHOOSE e \in scored : e.row = candidates[k]>> :
                        k \in DOMAIN candidates}
        best_rows == {kv \in scores :
                        \A other \in scores : other[2].row_score <= kv[2].row_score}
    IN  IF \E kv \in scores : kv[2].exited
        THEN {[row |-> row, crashed |-> TRUE]}
        ELSE IF \E kv \in scores : kv[2].undefined
        THEN {[row |-> row, crashed |-> TRUE]}
                \cup {[row |-> r, crashed |-> FALSE] : r \in ValidRows(a)}
        ELSE {[row |-> kv[2].row, crashed |-> FALSE] : kv \in best_rows}

\* the heuristics the driver may have put into heuristic_in_use: the ones
\* for location are for arrays that track location
HeuristicChoices(a) ==
    IF a.p = "c_only" THEN Heuristics \ {"l_only", "l_and_d"} ELSE Heuristics

\* the two switches of add_row (the initializer) and tweak_row (the
\* heuristic): the rows add_row hands to update_array
tweak_row(a, permutation, heuristic_in_use, scored) ==
    CASE heuristic_in_use \in {"c_only", "c_and_l", "c_and_d"} ->
            UNION {heuristic_c_only(a, permutation, new_row) :
                        new_row \in initialize_row_S(a)}
      [] heuristic_in_use \in {"l_only", "l_and_d"} ->
            {IF init.crashed THEN [row |-> init.row, crashed |-> TRUE]
             ELSE [row |-> heuristic_l_only(a, init.row, init.locked), crashed |-> FALSE] :
                        init \in initialize_row_T(a)}
      [] heuristic_in_use = "d_only" ->
            {[row |-> new_row, crashed |-> FALSE] : new_row \in initialize_row_R(a)}
      [] heuristic_in_use = "all" ->
            UNION {heuristic_all(a, permutation, new_row, scored) :
                        new_row \in initialize_row_R(a)}
      [] OTHER ->
            {[row |-> new_row, crashed |-> FALSE] : new_row \in initialize_row_R(a)}

(***************************************************************************)
(* The operations of the driver.                                           *)
(***************************************************************************)
\* what the Parser hands to the constructor.  d is read only when T sets
\* are built (p is not c_only) and delta only when detection is tracked
\* (p is all), so one value stands for all where they are not read; the
\* factor with three levels and the rows on file come with d = 1
Inputs ==
    {i \in [num_rows : 0..MaxNumRows, num_cols : {2}, levels : LevelsChoices,
             t : 1..2, d : 1..MaxD, delta : 0..MaxDelta, p : PropModes] :
        /\ i.p = "c_only" => i.d = 1 /\ i.delta = 0
        /\ i.p = "c_and_l" => i.delta = 0
        /\ i.levels # <<2, 2>> => i.t = 1 /\ i.d = 1 /\ i.p = "c_and_l" /\ i.num_rows = 0
        /\ i.num_rows > 0 => i.t = 2 /\ i.d = 1}

\* no look-ahead copy is alive
NoCopy == [state |-> "none"]

Init ==
    /\ in \in {i \in Inputs : i.t <= i.num_cols}
    /\ arr = Array(in)
    /\ ahead = NoCopy

\* Array::add_random_row() when get_random_row() returns one of random_rows
add_random_row_of(random_rows) ==
    /\ ~arr.exited
    /\ \E row \in random_rows, order \in AddressOrders :
          arr' = update_array(arr, row, build_row_interactions(arr, row), TRUE, order)
    /\ UNCHANGED <<in, ahead>>

\* Array::add_random_row(): get_random_row() draws any level of every factor
add_random_row ==
    /\ Len(arr.rows) < MaxRows
    /\ add_random_row_of(ValidRows(arr))

\* Array::add_row() of heuristics.cpp when heuristic_in_use is one of
\* heuristics and the shuffle leaves one of shuffles.  The scores of
\* heuristic_all depend on the array and the candidate alone: they are
\* computed once, and only where heuristic_all can run
add_row_of(heuristics, shuffles) ==
    /\ ~arr.exited
    /\ \E order \in AddressOrders :
        \E scored \in {IF "all" \in heuristics
                        THEN {heuristic_all_scorer(arr, fresh, r, order) :
                                    fresh \in {clone(arr)}, r \in ValidRows(arr)}
                        ELSE {}} :
            \E permutation \in shuffles :
            \E new \in UNION {tweak_row(arr, permutation, h, scored) : h \in heuristics} :
                LET a == [arr EXCEPT !.permutation = permutation]
                IN  arr' = IF new.crashed \/ ~IsRow(a, new.row)
                           THEN [a EXCEPT !.exited = TRUE]
                           ELSE update_array(a, new.row,
                                    build_row_interactions(a, new.row), TRUE, order)
    /\ UNCHANGED <<in, ahead>>

\* Array::add_row() of heuristics.cpp
add_row ==
    /\ Len(arr.rows) < MaxRows
    /\ add_row_of(HeuristicChoices(arr), Shuffle(arr.permutation, arr.num_factors))

Next == add_random_row \/ add_row

Spec == Init /\ [][Next]_vars

\* the driver committing rows of levels only: every sequence of kept commits
SpecCommits == Init /\ [][add_random_row]_vars

(***************************************************************************)
(* The look-ahead of heuristic_all_scorer, step by step: the Array is      *)
(* cloned, a row is tried on the copy, the copy is deleted.  Rows are      *)
(* committed to the Array between two look-aheads.                         *)
(***************************************************************************)
\* Array::clone()
take_clone ==
    /\ ~arr.exited
    /\ ahead.state = "none"
    /\ ahead' = [state |-> "cloned", array |-> clone(arr)]
    /\ UNCHANGED <<in, arr>>

\* copy->update_array(row, keep); before is the copy as clone() returned it
update_clone ==
    /\ ahead.state = "cloned"
    /\ \E row \in ValidRows(ahead.array), keep \in BOOLEAN, order \in AddressOrders :
          ahead' = [state |-> "updated", before |-> ahead.array,
                   row |-> row, keep |-> keep, order |-> order,
                   array |-> update_array(ahead.array, row,
                                build_row_interactions(ahead.array, row), keep, order)]
    /\ UNCHANGED <<in, arr>>

\* delete copy: Array::~Array() runs delete[] rows[i] for i < num_tests, an
\* access outside the vector when it holds fewer rows than num_tests; the
\* process goes on or ends there
delete_clone ==
    /\ ahead.state # "none"
    /\ ahead' = NoCopy
    /\ arr' \in IF Len(ahead.array.rows) < ahead.array.num_tests
                THEN {arr, [arr EXCEPT !.exited = TRUE]}
                ELSE {arr}
    /\ UNCHANGED in

\* a row is committed while no copy is alive
commit_row == ahead.state = "none" /\ add_random_row

NextLookAhead == commit_row \/ take_clone \/ update_clone \/ delete_clone

SpecLookAhead == Init /\ [][NextLookAhead]_vars

(***************************************************************************)
(* heuristic_all on an Array as constructed: any row initialize_row_R can  *)
(* hand over, under any permutation the shuffle of add_row can leave.      *)
(***************************************************************************)
\* the levels vectors of the Arrays heuristic_all is run on
EnumerateLevels == {<<2, 2, 2>>, <<2, 3>>, <<3, 2>>}

EnumerateInputs ==
    {i \in [num_rows : {0}, num_cols : 2..3, levels : EnumerateLevels,
             t : 1..2, d : {1}, delta : 0..MaxDelta, p : PropModes] :
        /\ i.num_cols = Len(i.levels)
        /\ i.p # "all" => i.delta = 0}

InitEnumerate ==
    /\ in \in EnumerateInputs
    /\ arr = Array(in)
    /\ ahead = NoCopy

\* the first statements of heuristic_all: scores is filled
score_all ==
    /\ ahead.state = "none"
    /\ \E permutation \in Shuffle(arr.permutation, arr.num_factors),
          row \in initialize_row_R(arr), order \in AddressOrders :
          ahead' = [state |-> "scored", row |-> row, permutation |-> permutation,
                    scores |-> heuristic_all_scores(arr, permutation, row, order)]
    /\ UNCHANGED <<in, arr>>

SpecEnumerate == InitEnumerate /\ [][score_all]_vars

(***************************************************************************)
(* heuristic_all with one thread per candidate row, as the comments of     *)
(* heuristic_all_helper and heuristic_all_scorer lay it out: thread k runs *)
(* heuristic_all_scorer on the k-th row_copy, statement by statement, and  *)
(* the threads are interleaved in any way.                                 *)
(***************************************************************************)
MaxRowsScorers == 1     \* rows committed before heuristic_all is called

\* the Arrays the threads are run on
ScorerInputs ==
    {i \in Inputs : i.levels = <<2, 2>> /\ i.num_rows = 0 /\ i.d = 1 /\ i.t = 2}

\* the rows add_random_row() commits before heuristic_all is called
ScorerFirstRows == {<<0, 0>>, <<0, 1>>}

\* the rows add_row() hands to heuristic_all
ScorerRows == {<<1, 0>>}

InitScorers ==
    /\ in \in ScorerInputs
    /\ arr = Array(in)
    /\ ahead = NoCopy

\* add_random_row() before heuristic_all is called
first_row_scorers ==
    /\ ahead.state = "none"
    /\ Len(arr.rows) < MaxRowsScorers
    /\ add_random_row_of(ScorerFirstRows)

\* heuristic_all_helper(row, 0, &scores): a row_copy and a thread for every
\* candidate row; scores is empty and scores_mutex free (0)
start_scorers ==
    /\ ~arr.exited
    /\ ahead.state = "none"
    /\ \E permutation \in Shuffle(arr.permutation, arr.num_factors), row \in ScorerRows :
        \E candidates \in {heuristic_all_helper(arr, permutation, row, 0, 0)} :
          ahead' = [state |-> "threads", candidates |-> candidates,
                    pc |-> [k \in DOMAIN candidates |-> "start"],
                    copy |-> [k \in DOMAIN candidates |-> <<>>],
                    row_score |-> [k \in DOMAIN candidates |-> 0],
                    scores |-> <<>>, scores_mutex |-> 0]
    /\ UNCHANGED <<in, arr>>

\* thread k is at statement at and the process is alive
ScorerAt(k, at) ==
    /\ ~arr.exited
    /\ ahead.state = "threads"
    /\ k \in DOMAIN ahead.pc
    /\ ahead.pc[k] = at

\* Array *copy = clone();
scorer_clone(k) ==
    /\ ScorerAt(k, "start")
    /\ ahead' = [ahead EXCEPT !.pc[k] = "cloned", !.copy[k] = clone(arr)]
    /\ UNCHANGED <<in, arr>>

\* copy->update_array(row, false); an exit(-1) in it ends the process
scorer_update(k) ==
    /\ ScorerAt(k, "cloned")
    /\ \E order \in AddressOrders :
        \E updated \in {update_array(ahead.copy[k], ahead.candidates[k],
                            build_row_interactions(ahead.copy[k], ahead.candidates[k]),
                            FALSE, order)} :
          /\ ahead' = [ahead EXCEPT !.pc[k] = "updated", !.copy[k] = updated]
          /\ arr' = IF updated.exited THEN [arr EXCEPT !.exited = TRUE] ELSE arr
    /\ UNCHANGED in

\* the loop over singles that adds up row_score
scorer_score(k) ==
    /\ ScorerAt(k, "updated")
    /\ LET copy == ahead.copy[k]
           weight(s) == arr.factors[s[1] + 1].level
           gain(s) ==
               weight(s) * (arr.singles[s].c_issues - copy.singles[s].c_issues)
               + 2 * weight(s) * (arr.singles[s].l_issues - copy.singles[s].l_issues)
               + 3 * weight(s) * (arr.singles[s].d_issues - copy.singles[s].d_issues)
       IN  ahead' = [ahead EXCEPT
                        !.pc[k] = "scored",
                        !.row_score[k] = SumSet(DOMAIN arr.singles,
                                            [s \in DOMAIN arr.singles |-> gain(s)])]
    /\ UNCHANGED <<in, arr>>

\* scores_mutex.lock();
scorer_lock(k) ==
    /\ ScorerAt(k, "scored")
    /\ ahead.scores_mutex = 0
    /\ ahead' = [ahead EXCEPT !.pc[k] = "locked", !.scores_mutex = k]
    /\ UNCHANGED <<in, arr>>

\* scores->insert({row, row_score}); the key is the row_copy of the thread
scorer_insert(k) ==
    /\ ScorerAt(k, "locked")
    /\ ahead' = [ahead EXCEPT
                    !.pc[k] = "inserted",
                    !.scores = IF k \in DOMAIN @ THEN @
                               ELSE [j \in DOMAIN @ \cup {k} |->
                                        IF j = k THEN ahead.row_score[k] ELSE @[j]]]
    /\ UNCHANGED <<in, arr>>

\* scores_mutex.unlock();
scorer_unlock(k) ==
    /\ ScorerAt(k, "inserted")
    /\ ahead' = [ahead EXCEPT !.pc[k] = "unlocked", !.scores_mutex = 0]
    /\ UNCHANGED <<in, arr>>

\* delete copy; as in delete_clone, Array::~Array() leaves the row list of
\* the copy when it holds fewer rows than num_tests
scorer_delete(k) ==
    /\ ScorerAt(k, "unlocked")
    /\ ahead' = [ahead EXCEPT !.pc[k] = "done", !.copy[k] = <<>>]
    /\ arr' \in IF Len(ahead.copy[k].rows) < ahead.copy[k].num_tests
                THEN {arr, [arr EXCEPT !.exited = TRUE]}
                ELSE {arr}
    /\ UNCHANGED in

\* the threads, one per position of the product of the levels
ScorerThreads == 1..4

NextScorers ==
    \/ first_row_scorers
    \/ start_scorers
    \/ \E k \in ScorerThreads :
          \/ scorer_clone(k) \/ scorer_update(k) \/ scorer_score(k)
          \/ scorer_lock(k) \/ scorer_insert(k) \/ scorer_unlock(k)
          \/ scorer_delete(k)

SpecScorers == InitScorers /\ [][NextScorers]_vars

(***************************************************************************)
(* add_row with heuristic_in_use == all, in its two halves: the row is     *)
(* initialized and tweaked, then committed.                                *)
(***************************************************************************)
MaxRowsAll == 3     \* rows committed per behaviour

\* add_random_row(), between two calls of add_row
commit_before_all ==
    /\ ahead.state = "none"
    /\ Len(arr.rows) < MaxRowsAll
    /\ add_random_row_of(ValidRows(arr))

\* add_row() up to the return of tweak_row(): initialize_row_R(), then
\* heuristic_all(new_row)
tweak_all ==
    /\ ~arr.exited
    /\ ahead.state = "none"
    /\ Len(arr.rows) \in 1..(MaxRowsAll - 1)
    /\ \E order \in AddressOrders :
        \E scored \in {{heuristic_all_scorer(arr, fresh, r, order) :
                            fresh \in {clone(arr)}, r \in ValidRows(arr)}} :
            \E permutation \in Shuffle(arr.permutation, arr.num_factors) :
            \E new \in tweak_row(arr, permutation, "all", scored) :
                ahead' = [state |-> "tweaked", permutation |-> permutation,
                          row |-> new.row, crashed |-> new.crashed]
    /\ UNCHANGED <<in, arr>>

\* the last statement of add_row(): update_array(new_row)
update_all ==
    /\ ahead.state = "tweaked"
    /\ \E order \in AddressOrders :
          LET a == [arr EXCEPT !.permutation = ahead.permutation]
          IN  arr' = IF ahead.crashed \/ ~IsRow(a, ahead.row)
                     THEN [a EXCEPT !.exited = TRUE]
                     ELSE update_array(a, ahead.row,
                                build_row_interactions(a, ahead.row), TRUE, order)
    /\ ahead' = NoCopy
    /\ UNCHANGED in

NextAll == commit_before_all \/ tweak_all \/ update_all

SpecAll == Init /\ [][NextAll]_vars

(***************************************************************************)
(* add_row of array.cpp: the greedy loop that initializes the row and      *)
(* advances the dont_cares tags, then tweak_row and update_array.          *)
(***************************************************************************)
\* the tag of a column is the one of the phase
TagMatches(a, tag) ==
    \/ a.p = "all" /\ tag = "all"
    \/ a.p = "c_and_l" /\ tag = "c_and_l"
    \/ a.p = "c_only" /\ tag = "c_only"

\* the three ifs on dont_cares[permutation[col]], for the worst Single s
AdvanceTag(a, tag, s) ==
    LET tag1 == IF tag = "none" /\ a.singles[s].c_issues = 0 THEN "c_only" ELSE tag
        tag2 == IF a.p # "c_only" /\ tag1 = "c_only" /\ a.singles[s].l_issues = 0
                THEN "c_and_l" ELSE tag1
    IN  IF a.p = "all" /\ tag2 = "c_and_l" /\ a.singles[s].d_issues = 0
        THEN "all" ELSE tag2

\* the loop over the columns from col on: the pairs [row, dont_cares] it
\* can end with
RECURSIVE greedy_loop(_, _, _, _)
greedy_loop(a, col, new_row, dont_cares) ==
    IF col = a.num_factors THEN {[row |-> new_row, dont_cares |-> dont_cares]}
    ELSE LET pc == a.permutation[col + 1]
         IN  UNION {
                LET tag == AdvanceTag(a, dont_cares[pc + 1], <<pc, worst>>)
                    tags == [dont_cares EXCEPT ![pc + 1] = tag]
                IN  IF TagMatches(a, tag)
                    THEN UNION {greedy_loop(a, col + 1, [new_row EXCEPT ![pc + 1] = val], tags) :
                                    val \in 0..(a.factors[pc + 1].level - 1)}
                    ELSE greedy_loop(a, col + 1, [new_row EXCEPT ![pc + 1] = worst], tags) :
                worst \in WorstSingle(a, pc, 1, 0)}

\* tweak_row(new_row, &row_interactions): the heuristics that take the row
\* alone (heuristic_c_only, heuristic_all) or none
tweak_greedy_row(a, permutation, row, scored) ==
    heuristic_c_only(a, permutation, row)
        \cup heuristic_all(a, permutation, row, scored)
        \cup {[row |-> row, crashed |-> FALSE]}

MaxRowsGreedy == 5  \* rows committed per behaviour

\* the separation asked of the Array with a factor of three levels
GreedyDelta == 2

\* what the Parser hands over: the Arrays of the driver of strength 1 with
\* no rows on file, and one of phase all with a factor of three levels
GreedyInputs ==
    {i \in Inputs : i.t = 1 /\ i.num_rows = 0}
        \cup {[num_rows |-> 0, num_cols |-> 2, levels |-> <<2, 3>>,
               t |-> 1, d |-> 1, delta |-> GreedyDelta, p |-> "all"]}

InitGreedy ==
    /\ in \in GreedyInputs
    /\ arr = Array(in)
    /\ ahead = NoCopy

\* add_random_row() for the first row
first_row_greedy ==
    /\ arr.num_tests = 0
    /\ add_random_row_of(ValidRows(arr))

\* Array::add_row() of array.cpp
add_row_greedy ==
    /\ ~arr.exited
    /\ arr.num_tests >= 1
    /\ Len(arr.rows) < MaxRowsGreedy
    /\ \E order \in AddressOrders :
        \E scored \in {{heuristic_all_scorer(arr, fresh, r, order) :
                            fresh \in {clone(arr)}, r \in ValidRows(arr)}} :
            \E permutation \in Shuffle(arr.permutation, arr.num_factors) :
            \E greedy \in greedy_loop([arr EXCEPT !.permutation = permutation], 0,
                                      [c \in 1..arr.num_factors |-> 0], arr.dont_cares) :
                LET a == [arr EXCEPT !.permutation = permutation,
                                     !.dont_cares = greedy.dont_cares]
                IN  \E new \in tweak_greedy_row(a, permutation, greedy.row, scored) :
                        arr' = IF new.crashed \/ ~IsRow(a, new.row)
                               THEN [a EXCEPT !.exited = TRUE]
                               ELSE update_array(a, new.row,
                                        build_row_interactions(a, new.row), TRUE, order)
    /\ UNCHANGED <<in, ahead>>

NextGreedy == first_row_greedy \/ add_row_greedy

SpecGreedy == InitGreedy /\ [][NextGreedy]_vars

(***************************************************************************)
(* initialize_row_S on the Arrays the add_row of array.cpp leaves, where   *)
(* the dont_cares tags have advanced.                                      *)
(***************************************************************************)
\* add_random_row() and add_row() while no row is being initialized
commit_greedy ==
    /\ ahead.state = "none"
    /\ first_row_greedy \/ add_row_greedy

\* the shuffle of add_row() of heuristics.cpp, then initialize_row_S()
initialize_S ==
    /\ ~arr.exited
    /\ ahead.state = "none"
    /\ arr.num_tests >= 1
    /\ \E permutation \in Shuffle(arr.permutation, arr.num_factors) :
        \E new_row \in initialize_row_S([arr EXCEPT !.permutation = permutation]) :
            ahead' = [state |-> "initialized", permutation |-> permutation,
                      row |-> new_row]
    /\ UNCHANGED <<in, arr>>

NextInitializeS == commit_greedy \/ initialize_S

SpecInitializeS == InitGreedy /\ [][NextInitializeS]_vars

(***************************************************************************)
(* add_row() of heuristics.cpp with heuristic_in_use l_only, step by step: *)
(* initialize_row_T(), heuristic_l_only(), update_array().  Rows are       *)
(* committed by add_random_row() between two of them.                      *)
(***************************************************************************)
MaxRowsLOnly == 3   \* rows committed per behaviour

\* Array::add_random_row() while no row is being built
commit_before_l_only ==
    /\ ahead.state = "none"
    /\ Len(arr.rows) < MaxRowsLOnly
    /\ add_random_row_of(ValidRows(arr))

\* add_row() up to the return of initialize_row_T(): random is the row of
\* initialize_row_R() the locked Singles are written into
initialize_T ==
    /\ ~arr.exited
    /\ ahead.state = "none"
    /\ "l_only" \in HeuristicChoices(arr)
    /\ Len(arr.rows) < MaxRowsLOnly
    /\ \E random \in initialize_row_R(arr) :
        \E init \in {i \in initialize_row_T(arr) :
                        ~i.crashed /\ i.row = LockSingles(random, arr.sets[i.locked].singles)} :
            ahead' = [state |-> "initialized_T", random |-> random,
                      row |-> init.row, locked |-> init.locked]
    /\ UNCHANGED <<in, arr>>

\* tweak_row(new_row, locked) with heuristic_in_use l_only
tweak_l_only ==
    /\ ahead.state = "initialized_T"
    /\ ahead' = [ahead EXCEPT !.state = "tweaked_l",
                              !.row = heuristic_l_only(arr, ahead.row, ahead.locked)]
    /\ UNCHANGED <<in, arr>>

\* update_array(new_row) at the end of add_row()
update_l_only ==
    /\ ahead.state = "tweaked_l"
    /\ \E order \in AddressOrders :
          arr' = update_array(arr, ahead.row, build_row_interactions(arr, ahead.row),
                              TRUE, order)
    /\ ahead' = NoCopy
    /\ UNCHANGED in

NextLOnly == commit_before_l_only \/ initialize_T \/ tweak_l_only \/ update_l_only

SpecLOnly == Init /\ [][NextLOnly]_vars

(***************************************************************************)
(* add_row() of heuristics.cpp with heuristic_in_use c_only, one step per  *)
(* pass of the loops of heuristic_c_only, for factors of 2, 2 and 3 levels *)
(* and strength 2.  ahead holds the locals of heuristic_c_only.            *)
(***************************************************************************)
MaxRowsTrials == 6  \* rows committed per behaviour

InputTrials ==
    [num_rows |-> 0, num_cols |-> 3, levels |-> <<2, 2, 3>>,
     t |-> 2, d |-> 1, delta |-> 0, p |-> "c_only"]

InitTrials ==
    /\ in = InputTrials
    /\ arr = Array(in)
    /\ ahead = NoCopy

\* the shuffles of the permutation that are followed
ShufflesTrials == {<<0, 1, 2>>, <<2, 0, 1>>, <<1, 2, 0>>}

\* the rows get_random_row() draws, by the number of rows committed before
RandomRowsTrials ==
    <<<<0, 0, 0>>, <<0, 0, 1>>, <<0, 1, 0>>, <<1, 0, 1>>, <<1, 1, 2>>>>

\* Array::add_random_row() while no row is being built
commit_before_trials ==
    /\ ahead.state = "none"
    /\ Len(arr.rows) < MaxRowsTrials - 1
    /\ Len(arr.rows) < Len(RandomRowsTrials)
    /\ add_random_row_of({RandomRowsTrials[Len(arr.rows) + 1]})

\* add_row() up to the first loop over the factors of heuristic_c_only: the
\* shuffle, initialize_row_S(), the problems of the row and their maximum
score_problems ==
    /\ ~arr.exited
    /\ ahead.state = "none"
    /\ Len(arr.rows) \in 1..(MaxRowsTrials - 1)
    /\ \E permutation \in ShufflesTrials :
        \E row \in initialize_row_S([arr EXCEPT !.permutation = permutation]) :
            LET problems == ScoreProblems(arr, [f \in 0..(arr.num_factors - 1) |-> 0],
                                build_row_interactions(arr, row),
                                {i \in build_row_interactions(arr, row) :
                                    \E s \in Range(arr.interactions[i].singles) :
                                        arr.dont_cares[s[1] + 1] # "none"})
                max_problems == MaxProblems(problems, DOMAIN problems, 0)
            IN  /\ arr' = [arr EXCEPT !.permutation = permutation]
                /\ ahead' = [state |-> IF max_problems = 0 THEN "returned" ELSE "altering",
                             row |-> row, original |-> row, crashed |-> FALSE, col |-> 0,
                             i |-> 0,
                             problems |-> problems, max_problems |-> max_problems,
                             temp_problems |-> [f \in 0..(arr.num_factors - 1) |-> 0],
                             cur_max |-> max_problems]
    /\ UNCHANGED in

\* one pass of the loop that looks for the factors to alter: a factor whose
\* problems are not the maximum is passed over, for another temp_problems is
\* allocated
next_factor ==
    /\ ahead.state = "altering"
    /\ ahead' = IF ahead.col >= arr.num_factors
                THEN [ahead EXCEPT !.state = "last_resort"]
                ELSE IF ahead.problems[arr.permutation[ahead.col + 1]] # ahead.max_problems
                THEN [ahead EXCEPT !.col = @ + 1]
                ELSE [ahead EXCEPT !.state = "trying", !.i = 1, !.original = ahead.row,
                                   !.temp_problems = [f \in DOMAIN ahead.problems |-> 0]]
    /\ UNCHANGED <<in, arr>>

\* one pass of the loop over the values of the factor: the next value is put
\* into the row and judged by heuristic_c_helper
try_value ==
    /\ ahead.state = "trying"
    /\ ahead.i < arr.factors[arr.permutation[ahead.col + 1] + 1].level
    /\ LET pc == arr.permutation[ahead.col + 1]
           tried == [ahead.row EXCEPT ![pc + 1] =
                        (ahead.row[pc + 1] + 1) % arr.factors[pc + 1].level]
           res == heuristic_c_helper(arr, tried, build_row_interactions(arr, tried),
                                     ahead.temp_problems)
       IN  ahead' = IF ~IsRow(arr, tried)
                    THEN [ahead EXCEPT !.state = "returned", !.row = tried,
                                       !.crashed = TRUE]
                    ELSE IF res.max_problems < ahead.max_problems
                    THEN [ahead EXCEPT !.state = "returned", !.row = tried,
                                       !.temp_problems = res.problems,
                                       !.cur_max = res.max_problems]
                    ELSE [ahead EXCEPT !.row = tried, !.i = @ + 1,
                                       !.temp_problems = res.problems,
                                       !.cur_max = res.max_problems]
    /\ UNCHANGED <<in, arr>>

\* the end of the loop over the values: the value is put back modulo the
\* level of factor col
put_back ==
    /\ ahead.state = "trying"
    /\ ahead.i >= arr.factors[arr.permutation[ahead.col + 1] + 1].level
    /\ LET pc == arr.permutation[ahead.col + 1]
       IN  ahead' = [ahead EXCEPT !.state = "put_back", !.i = 0,
                        !.row[pc + 1] = (@ + 1) % arr.factors[ahead.col + 1].level]
    /\ UNCHANGED <<in, arr>>

\* the loop that looks for the factors to alter goes on
after_put_back ==
    /\ ahead.state = "put_back"
    /\ ahead' = [ahead EXCEPT !.state = "altering", !.col = @ + 1]
    /\ UNCHANGED <<in, arr>>

\* the last resort of heuristic_c_only
last_resort ==
    /\ ahead.state = "last_resort"
    /\ \E res \in c_only_last_resort(arr, arr.permutation, ahead.row, 0, arr.dont_cares) :
          ahead' = [ahead EXCEPT !.state = "returned", !.row = res.row,
                                 !.crashed = res.crashed]
    /\ UNCHANGED <<in, arr>>

\* update_array(new_row) at the end of add_row()
update_c_only ==
    /\ ahead.state = "returned"
    /\ \E order \in AddressOrders :
          arr' = IF ahead.crashed \/ ~IsRow(arr, ahead.row)
                 THEN [arr EXCEPT !.exited = TRUE]
                 ELSE update_array(arr, ahead.row, build_row_interactions(arr, ahead.row),
                                   TRUE, order)
    /\ ahead' = NoCopy
    /\ UNCHANGED in

NextTrials ==
    \/ commit_before_trials
    \/ score_problems
    \/ next_factor
    \/ try_value
    \/ put_back
    \/ after_put_back
    \/ last_resort
    \/ update_c_only

SpecTrials == InitTrials /\ [][NextTrials]_vars

(***************************************************************************)
(* Scenario S1: three factors of 2 levels, strength 2, phase c_only; the   *)
(* first row is [0,0,0] and heuristic_in_use is c_only from then on.       *)
(***************************************************************************)
MaxRowsS1 == 6      \* rows committed per behaviour of the scenario

InputS1 ==
    [num_rows |-> 0, num_cols |-> 3, levels |-> <<2, 2, 2>>,
     t |-> 2, d |-> 1, delta |-> 0, p |-> "c_only"]

InitS1 ==
    /\ in = InputS1
    /\ arr = Array(in)
    /\ ahead = NoCopy

\* add_random_row() drawing [0,0,0]
first_row_S1 ==
    /\ Len(arr.rows) = 0
    /\ add_random_row_of({<<0, 0, 0>>})

\* add_row() under heuristic_c_only
add_row_S1 ==
    /\ Len(arr.rows) \in 1..(MaxRowsS1 - 1)
    /\ add_row_of({"c_only"}, Shuffle(arr.permutation, arr.num_factors))

NextS1 == first_row_S1 \/ add_row_S1

SpecS1 == InitS1 /\ [][NextS1]_vars

(***************************************************************************)
(* Scenario S5: five factors of 4 levels, strength 1, phase c_only;        *)
(* heuristic_in_use is c_only after the first, random, row.                *)
(***************************************************************************)
MaxRowsS5 == 4      \* rows committed per behaviour of the scenario

InputS5 ==
    [num_rows |-> 0, num_cols |-> 5, levels |-> <<4, 4, 4, 4, 4>>,
     t |-> 1, d |-> 1, delta |-> 0, p |-> "c_only"]

InitS5 ==
    /\ in = InputS5
    /\ arr = Array(in)
    /\ ahead = NoCopy

\* the rows add_random_row() draws in the scenario
FirstRowsS5 == {<<0, 1, 2, 3, 0>>}

\* the permutations the shuffle of add_row() leaves in the scenario
ShufflesS5 ==
    {<<0, 1, 2, 3, 4>>, <<2, 0, 4, 1, 3>>}

\* add_random_row()
first_row_S5 ==
    /\ Len(arr.rows) = 0
    /\ add_random_row_of(FirstRowsS5)

\* add_row() under heuristic_c_only
add_row_S5 ==
    /\ Len(arr.rows) \in 1..(MaxRowsS5 - 1)
    /\ add_row_of({"c_only"}, ShufflesS5)

NextS5 == first_row_S5 \/ add_row_S5

SpecS5 == InitS5 /\ [][NextS5]_vars

(***************************************************************************)
(* Properties of the counters and of the index.                            *)
(***************************************************************************)
\* the sum over all Singles of c_issues + l_issues + d_issues
SumIssues(a) ==
    SumSet(DOMAIN a.singles,
           [s \in DOMAIN a.singles |->
                a.singles[s].c_issues + a.singles[s].l_issues + a.singles[s].d_issues])

\* the positions (from 1) of the committed rows that hold value s[2] in
\* column s[1]
RowsWith(s) == {k \in DOMAIN arr.rows : arr.rows[k][s[1] + 1] = s[2]}

\* the numbers of rows of I that are no rows of T
Separation(i, ts) == Cardinality(arr.interactions[i].rows \ arr.sets[ts].rows)

\* every property the phase asks for holds of every object
AllSatisfied ==
    /\ \A i \in DOMAIN arr.interactions : arr.interactions[i].is_covered
    /\ arr.p # "c_only" => \A ts \in DOMAIN arr.sets : arr.sets[ts].is_locatable
    /\ arr.p = "all" => \A i \in DOMAIN arr.interactions : arr.interactions[i].is_detectable

\* C1: in every phase, after construction and after every commit, score is
\* coverage_problems + location_problems + detection_problems plus the sum
\* of the issue counters of all Singles.
C1_ScoreIdentity ==
    arr.score = arr.coverage_problems + arr.location_problems
                + arr.detection_problems + SumIssues(arr)

\* C2: whenever score is 0 the array is flagged covering, and locating when
\* the phase is c_and_l or all, and detecting when the phase is all.
C2_ZeroScoreMeansDone ==
    arr.score = 0 =>
        /\ arr.is_covering
        /\ arr.p \in {"c_and_l", "all"} => arr.is_locating
        /\ arr.p = "all" => arr.is_detecting

\* C2 happens: a phase-all array with delta 1 has reached score 0
C2_Witness ==
    arr.score = 0 /\ arr.p = "all" /\ arr.delta = 1 /\ Len(arr.rows) > 0

\* C3: in every phase, once every Interaction is covered and, as the phase
\* asks, every T set is locatable and every Interaction detectable, score
\* is 0.
C3_DoneMeansZeroScore == AllSatisfied => arr.score = 0

\* C4: every Single's rows are the indices of the committed rows holding its
\* value, a row being recorded under num_tests as it was before the
\* increment, so that the indices lie in [0, num_tests).
C4_RowsZeroBased ==
    \A s \in DOMAIN arr.singles :
        /\ arr.singles[s].rows = {in.num_rows + k - 1 : k \in RowsWith(s)}
        /\ arr.singles[s].rows \subseteq 0..(arr.num_tests - 1)

\* C4 as amended: a row is recorded under num_tests as it is after the
\* increment, so that the indices lie in [1, num_tests].
C4_RowsOneBased ==
    \A s \in DOMAIN arr.singles :
        /\ arr.singles[s].rows = {in.num_rows + k : k \in RowsWith(s)}
        /\ arr.singles[s].rows \subseteq 1..arr.num_tests

\* C4 happens: rows were on file before construction and a Single has been
\* recorded in two committed rows
C4_Witness ==
    /\ in.num_rows = 1
    /\ \E s \in DOMAIN arr.singles : Cardinality(arr.singles[s].rows) = 2

\* C5: every Interaction's rows are the intersection of the rows of its
\* Singles, and every T set's rows are the union of the rows of its member
\* Interactions.
C5_DerivedRows ==
    /\ \A i \in DOMAIN arr.interactions :
          LET its == Range(arr.interactions[i].singles)
          IN  arr.interactions[i].rows =
                {n \in UNION {arr.singles[s].rows : s \in its} :
                    \A s \in its : n \in arr.singles[s].rows}
    /\ \A ts \in DOMAIN arr.sets :
          arr.sets[ts].rows =
            UNION {arr.interactions[i].rows : i \in Range(arr.sets[ts].interactions)}

\* C5 happens: an Interaction of two Singles has fewer rows than either of
\* them, and a T set of two Interactions has more rows than either of them
C5_Witness ==
    /\ \E i \in DOMAIN arr.interactions :
          /\ arr.interactions[i].rows # {}
          /\ \A s \in Range(arr.interactions[i].singles) :
                arr.singles[s].rows # arr.interactions[i].rows
    /\ \E ts \in DOMAIN arr.sets :
          \A i \in Range(arr.sets[ts].interactions) :
              /\ arr.interactions[i].rows # {}
              /\ arr.interactions[i].rows # arr.sets[ts].rows

\* C6: an Interaction is flagged covered exactly when it has a row.
C6_CoveredFlag ==
    \A i \in DOMAIN arr.interactions :
        arr.interactions[i].is_covered <=> arr.interactions[i].rows # {}

\* C6 happens: after a commit some Interactions are covered and some are not
C6_Witness ==
    /\ \E i \in DOMAIN arr.interactions : arr.interactions[i].is_covered
    /\ \E i \in DOMAIN arr.interactions : ~arr.interactions[i].is_covered

\* C7: in a phase that tracks location a T set is flagged locatable exactly
\* when its location_conflicts are empty, also right after construction and
\* for T sets no row holds yet.
C7_LocatableFlag ==
    arr.p # "c_only" =>
        \A ts \in DOMAIN arr.sets :
            arr.sets[ts].is_locatable <=> arr.sets[ts].location_conflicts = {}

\* C7 as amended: a T set is flagged locatable exactly when a committed row
\* holds it and its location_conflicts are empty.
C7_LocatableFlagOfSeenSets ==
    arr.p # "c_only" =>
        \A ts \in DOMAIN arr.sets :
            arr.sets[ts].is_locatable <=>
                (arr.sets[ts].rows # {} /\ arr.sets[ts].location_conflicts = {})

\* C7 happens: one T set is locatable, one is in rows and in conflict, and
\* one is in no row
C7_Witness ==
    /\ arr.p # "c_only"
    /\ \E ts \in DOMAIN arr.sets : arr.sets[ts].is_locatable
    /\ \E ts \in DOMAIN arr.sets :
          arr.sets[ts].rows # {} /\ arr.sets[ts].location_conflicts # {}
    /\ \E ts \in DOMAIN arr.sets : arr.sets[ts].rows = {}

\* C8: T1 is in T2.location_conflicts exactly when T2 is in
\* T1.location_conflicts.
C8_ConflictsSymmetric ==
    \A t1 \in DOMAIN arr.sets : \A t2 \in DOMAIN arr.sets :
        t1 \in arr.sets[t2].location_conflicts
            <=> t2 \in arr.sets[t1].location_conflicts

\* C8 happens: a conflict has been solved by a later row while another one
\* is still there
C8_Witness ==
    /\ Len(arr.rows) >= 2
    /\ \E t1 \in DOMAIN arr.sets :
          /\ arr.sets[t1].is_locatable /\ Cardinality(arr.sets[t1].rows) >= 2
    /\ \E t1 \in DOMAIN arr.sets : arr.sets[t1].location_conflicts # {}

\* C9: in phase all an Interaction is flagged detectable exactly when it has
\* at least delta rows outside every T set it is no member of, also right
\* after construction and for delta 0.
C9_DetectableFlag ==
    arr.p = "all" =>
        \A i \in DOMAIN arr.interactions :
            arr.interactions[i].is_detectable <=>
                \A ts \in (DOMAIN arr.sets) \ arr.interactions[i].sets :
                    Separation(i, ts) >= arr.delta

\* C9 as amended: an Interaction is flagged detectable exactly when a
\* committed row holds it and it has at least delta rows outside every T set
\* it is no member of.
C9_DetectableFlagOfCovered ==
    arr.p = "all" =>
        \A i \in DOMAIN arr.interactions :
            arr.interactions[i].is_detectable <=>
                /\ arr.interactions[i].rows # {}
                /\ \A ts \in (DOMAIN arr.sets) \ arr.interactions[i].sets :
                        Separation(i, ts) >= arr.delta

\* C9 happens: with delta 1 one Interaction is detectable and another one is
\* covered and not detectable
C9_Witness ==
    /\ arr.p = "all" /\ arr.delta = 1
    /\ \E i \in DOMAIN arr.interactions : arr.interactions[i].is_detectable
    /\ \E i \in DOMAIN arr.interactions :
          arr.interactions[i].is_covered /\ ~arr.interactions[i].is_detectable

\* C10: in a phase that tracks location, when is_locating is set any two
\* distinct T sets have different rows.
C10_LocatingIsReal ==
    (arr.p # "c_only" /\ arr.is_locating) =>
        \A t1 \in DOMAIN arr.sets : \A t2 \in DOMAIN arr.sets :
            t1 # t2 => arr.sets[t1].rows # arr.sets[t2].rows

\* C10 happens: an array of T sets of two Interactions is flagged locating
C10_Witness ==
    arr.p # "c_only" /\ arr.is_locating /\ arr.d = 2 /\ Len(arr.sets) > 1

(***************************************************************************)
(* Properties of detection at the end, and of the look-ahead copy.         *)
(***************************************************************************)
\* the committed rows (positions from 1) that hold every Single of
\* Interaction i
RowsHolding(i) ==
    {k \in DOMAIN arr.rows :
        \A s \in Range(arr.interactions[i].singles) : arr.rows[k][s[1] + 1] = s[2]}

\* the committed rows that hold Interaction i and no member of T set ts
RowsApart(i, ts) ==
    {k \in RowsHolding(i) :
        \A j \in Range(arr.sets[ts].interactions) : k \notin RowsHolding(j)}

\* C11: in phase all, whenever score is 0, for every Interaction I and every
\* T set that does not contain I at least delta committed rows contain I and
\* no member of the T set.
C11_SeparatedAtZeroScore ==
    (arr.p = "all" /\ arr.score = 0) =>
        \A i \in DOMAIN arr.interactions :
            \A ts \in DOMAIN arr.sets :
                i \notin Range(arr.sets[ts].interactions) =>
                    Cardinality(RowsApart(i, ts)) >= arr.delta

\* C11 happens: a phase-all array of strength 2 with delta 1 has reached
\* score 0, and some Interaction is kept apart from a T set by one row only
C11_Witness ==
    /\ arr.p = "all" /\ arr.score = 0 /\ arr.delta = 1 /\ arr.t = 2
    /\ \E i \in DOMAIN arr.interactions : \E ts \in DOMAIN arr.sets :
          /\ i \notin Range(arr.sets[ts].interactions)
          /\ Cardinality(RowsApart(i, ts)) = 1

\* the issue counters of every Single of an array
SingleIssues(a) ==
    [s \in DOMAIN a.singles |->
        <<a.singles[s].c_issues, a.singles[s].l_issues, a.singles[s].d_issues>>]

\* score and the problem counters that go down with it
ScoreCounters(a) ==
    <<a.score, a.coverage_problems, a.location_problems, a.detection_problems>>

\* the three property flags
Flags(a) == <<a.is_covering, a.is_locating, a.is_detecting>>

\* C15: immediately after clone() total_problems, coverage_problems,
\* location_problems, detection_problems, score, the three property flags
\* and the issue counters of every Single are equal in the clone and in the
\* original.
C15_CloneCounters ==
    ahead.state = "cloned" =>
        /\ ahead.array.total_problems = arr.total_problems
        /\ ScoreCounters(ahead.array) = ScoreCounters(arr)
        /\ Flags(ahead.array) = Flags(arr)
        /\ SingleIssues(ahead.array) = SingleIssues(arr)

\* C16: in every phase, coverage-only included, the committed row list of
\* the clone has the length of the original's, which is the clone's
\* num_tests, and the same contents row by row.  (Rows are values here: the
\* storage that holds them is not part of the state.)
C16_CloneRows ==
    ahead.state = "cloned" =>
        /\ Len(ahead.array.rows) = Len(arr.rows)
        /\ Len(ahead.array.rows) = ahead.array.num_tests
        /\ \A k \in DOMAIN arr.rows : ahead.array.rows[k] = arr.rows[k]

\* the rows sets of every Single, Interaction and T set of an array
RowsSets(a) ==
    <<[s \in DOMAIN a.singles |-> a.singles[s].rows],
      [i \in DOMAIN a.interactions |-> a.interactions[i].rows],
      [ts \in DOMAIN a.sets |-> a.sets[ts].rows]>>

\* what update_array(row, keep = true) makes of the array the look-ahead
\* tried its row on
Kept ==
    update_array(ahead.before, ahead.row,
                 build_row_interactions(ahead.before, ahead.row), TRUE, ahead.order)

\* C13: update_array(row, keep = false) leaves the committed row list,
\* num_tests and the rows of every Single, Interaction and T set as they
\* were before the call, and the global counters, the flags and the issue
\* counters of every Single as update_array(row, keep = true) leaves them
\* from the same state.
C13_LookAheadRollsBackRows ==
    (ahead.state = "updated" /\ ~ahead.keep) =>
        /\ ahead.array.rows = ahead.before.rows
        /\ ahead.array.num_tests = ahead.before.num_tests
        /\ RowsSets(ahead.array) = RowsSets(ahead.before)
        /\ ahead.array.total_problems = Kept.total_problems
        /\ ScoreCounters(ahead.array) = ScoreCounters(Kept)
        /\ Flags(ahead.array) = Flags(Kept)
        /\ SingleIssues(ahead.array) = SingleIssues(Kept)

\* C13 happens: a row was tried without keeping it on an array of phase all
\* that holds rows already, and the trial moved score and the issue counters
C13_Witness ==
    /\ ahead.state = "updated" /\ ~ahead.keep
    /\ arr.p = "all" /\ Len(ahead.before.rows) >= 2
    /\ ahead.array.score < ahead.before.score
    /\ SingleIssues(ahead.array) # SingleIssues(ahead.before)
    /\ \E ts \in DOMAIN ahead.before.sets : ahead.before.sets[ts].rows # {}

\* what committing the row of the look-ahead makes of the Array itself, its
\* pointer-keyed sets being traversed in the given order
Committed(order) ==
    update_array(arr, ahead.row, build_row_interactions(arr, ahead.row), TRUE, order)

\* C14: committing a row on the Array and committing the same row on a
\* clone taken just before yield equal score, coverage_problems,
\* location_problems and detection_problems and equal issue counters of
\* every Single, in any phase.
C14_CloneCommitsAlike ==
    (ahead.state = "updated" /\ ahead.keep) =>
        \A order \in AddressOrders :
            /\ ScoreCounters(ahead.array) = ScoreCounters(Committed(order))
            /\ SingleIssues(ahead.array) = SingleIssues(Committed(order))

\* C14 happens: the third row was committed on the clone of an Array of
\* phase all with delta 1, and it moved the counters of detection
C14_Witness ==
    /\ ahead.state = "updated" /\ ahead.keep
    /\ arr.p = "all" /\ arr.delta = 1 /\ Len(arr.rows) = 2
    /\ ahead.array.score < arr.score
    /\ \E s \in DOMAIN arr.singles :
          ahead.array.singles[s].d_issues # arr.singles[s].d_issues

(***************************************************************************)
(* Properties of the row list over the calls of the driver.                *)
(***************************************************************************)
\* the indices under which rows are recorded in the Singles of an array
Indices(a) == UNION {a.singles[s].rows : s \in DOMAIN a.singles}

RECURSIVE LevelsProduct(_)
LevelsProduct(c) ==
    IF c > arr.num_factors THEN 1 ELSE arr.factors[c].level * LevelsProduct(c + 1)

C18_CoveredWithinFiveRows ==
    /\ Len(arr.rows) = 0 => arr.coverage_problems = 12
    /\ Len(arr.rows) >= 5 => arr.coverage_problems = 0

\* C19: in scenario S5 the score is 0 once 4 rows are committed, and is not
\* 0 with fewer rows
C19_ScoreZeroAtFourRows ==
    /\ Len(arr.rows) = 4 => arr.score = 0
    /\ Len(arr.rows) < 4 => arr.score # 0

(***************************************************************************)
(* Properties of the location update.                                      *)
(***************************************************************************)
\* C21: over any sequence of kept commits of valid rows the location update
\* never takes an exit(-1): the symmetric erase finds its element and
\* location_problems is not 0 right after a partner T set became locatable
C21_NoInvariantError == ~arr.exited

\* a T set had rows before, lost its last conflict in a later row, and
\* other T sets are still not locatable
C21_Witness ==
    /\ arr.p # "c_only" /\ ~arr.exited /\ arr.location_problems > 0
    /\ \E k \in DOMAIN arr.sets :
        /\ arr.sets[k].is_locatable
        /\ \E j \in DOMAIN arr.sets :
            /\ j # k /\ Cardinality(arr.sets[j].rows) >= 2
            /\ arr.sets[k].rows \ arr.sets[j].rows # {}
            /\ arr.sets[j].rows \ arr.sets[k].rows # {}
            /\ arr.sets[k].rows \cap arr.sets[j].rows # {}

(***************************************************************************)
(* Properties of the threads of heuristic_all.                             *)
(***************************************************************************)
\* every thread of the call has run heuristic_all_scorer to its end
ScorersDone ==
    /\ ahead.state = "threads"
    /\ \A k \in DOMAIN ahead.pc : ahead.pc[k] = "done"

\* the scores map of the calls made one after the other
SequentialScores ==
    LET fresh == clone(arr)
    IN  [k \in DOMAIN ahead.candidates |->
            heuristic_all_scorer(arr, fresh, ahead.candidates[k], "asc").row_score]

\* C22: however the threads of one heuristic_all call are interleaved, at
\* most one of them is between lock and unlock of scores_mutex, and when
\* all have ended the process is alive and scores is the map that the calls
\* made one after the other fill
C22_ScoresAsSequential ==
    /\ ahead.state = "threads" =>
            Cardinality({k \in DOMAIN ahead.pc :
                            ahead.pc[k] \in {"locked", "inserted"}}) <= 1
    /\ ScorersDone => ~arr.exited /\ ahead.scores = SequentialScores

\* the row_score of a row: the weighted issues a keep = false commit of it
\* on a clone takes away
RowScore(row) == heuristic_all_scorer(arr, clone(arr), row, "asc").row_score

\* C23: the row heuristic_all leaves in place has a row_score at least that
\* of every row of the product of the levels
C23_BestRowChosen ==
    ahead.state = "tweaked" =>
        /\ ~ahead.crashed
        /\ IsRow(arr, ahead.row)
        /\ \A row \in ValidRows(arr) : RowScore(ahead.row) >= RowScore(row)

(***************************************************************************)
(* Properties of the dont_cares tags.                                      *)
(***************************************************************************)
TagRank(tag) ==
    CASE tag = "none" -> 0 [] tag = "c_only" -> 1 [] tag = "c_and_l" -> 2 [] OTHER -> 3

\* C29: a step that advances the tag of a factor to c_only (c_and_l, all)
\* finds c_issues (l_issues, d_issues) at 0 for every Single of the factor,
\* and no tag moves back
C29_TagsAdvanceOnSolvedFactors ==
    [][\A c \in DOMAIN arr.dont_cares :
        LET before == TagRank(arr.dont_cares[c])
            after == TagRank(arr'.dont_cares[c])
            of_factor == {s \in DOMAIN arr.singles : s[1] = c - 1}
        IN  /\ before <= after
            /\ before < 1 /\ 1 <= after =>
                    \A s \in of_factor : arr.singles[s].c_issues = 0
            /\ before < 2 /\ 2 <= after =>
                    \A s \in of_factor : arr.singles[s].l_issues = 0
            /\ before < 3 /\ 3 <= after =>
                    \A s \in of_factor : arr.singles[s].d_issues = 0]_vars

(***************************************************************************)
(* Properties of initialize_row_S.                                         *)
(***************************************************************************)
\* c_issues + l_issues + 3 * d_issues of level val of column col
IssuesOf(col, val) ==
    arr.singles[<<col, val>>].c_issues + arr.singles[<<col, val>>].l_issues
        + 3 * arr.singles[<<col, val>>].d_issues

\* C24: in the row initialize_row_S returns, the level of every column whose
\* tag is not the one of the phase has c_issues + l_issues + 3 * d_issues at
\* least that of every level of the factor
C24_WorstLevelChosen ==
    ahead.state = "initialized" =>
        \A c \in 1..arr.num_factors :
            arr.dont_cares[c] # arr.p =>
                \A val \in 0..(arr.factors[c].level - 1) :
                    IssuesOf(c - 1, ahead.row[c]) >= IssuesOf(c - 1, val)

\* a row is initialized where one column is a don't care of the phase and
\* the levels of another differ in their issues
C24_Witness ==
    /\ ahead.state = "initialized"
    /\ \E c \in 1..arr.num_factors : arr.dont_cares[c] = arr.p
    /\ \E c \in 1..arr.num_factors :
        /\ arr.dont_cares[c] # arr.p
        /\ \E val \in 0..(arr.factors[c].level - 1) :
                IssuesOf(c - 1, ahead.row[c]) > IssuesOf(c - 1, val)

(***************************************************************************)
(* Properties of initialize_row_T and heuristic_l_only.                    *)
(***************************************************************************)
\* the row heuristic_l_only leaves holds every Single and every Interaction
\* of the locked T set
HoldsLocked ==
    /\ \A s \in Range(arr.sets[ahead.locked].singles) : ahead.row[s[1] + 1] = s[2]
    /\ Range(arr.sets[ahead.locked].interactions)
            \subseteq build_row_interactions(arr, ahead.row)

\* C25: after initialize_row_T and heuristic_l_only the row agrees with every
\* Single of the locked T set and holds its Interactions, for any d
C25_RowHoldsLocked == ahead.state = "tweaked_l" => HoldsLocked

\* C25 for d = 1: after initialize_row_T and heuristic_l_only the row agrees
\* with every Single of the locked T set and holds its Interaction
C25_RowHoldsLockedOfOne == ahead.state = "tweaked_l" /\ in.d = 1 => HoldsLocked

\* a row is tweaked under a locked T set of one Interaction that the random
\* row did not hold
C25_Witness ==
    /\ ahead.state = "tweaked_l"
    /\ in.d = 1
    /\ \E s \in Range(arr.sets[ahead.locked].singles) : ahead.random[s[1] + 1] # s[2]

\* the factors none of the Singles of the locked T set is of
Unlocked ==
    {c \in 0..(arr.num_factors - 1) :
        \A s \in Range(arr.sets[ahead.locked].singles) : s[1] # c}

\* the appearances of level val of factor c in the T sets that conflict with
\* the locked one
Appearances(c, val) ==
    SumSet(arr.sets[ahead.locked].location_conflicts,
           [ts \in arr.sets[ahead.locked].location_conflicts |->
                Count(arr.sets[ts].singles, <<c, val>>)])

\* the levels of factor c with the highest count of appearances
Highest(c) ==
    {val \in 0..(arr.factors[c + 1].level - 1) :
        \A other \in 0..(arr.factors[c + 1].level - 1) :
            Appearances(c, other) <= Appearances(c, val)}

\* C26: every factor that is not locked takes the one level with the highest
\* count, and keeps the value of the random initializer when levels tie
C26_TiesKeepRandom ==
    ahead.state = "tweaked_l" =>
        \A c \in Unlocked :
            /\ Cardinality(Highest(c)) = 1 => ahead.row[c + 1] \in Highest(c)
            /\ Cardinality(Highest(c)) >= 2 => ahead.row[c + 1] = ahead.random[c + 1]

\* C26 as the code has it: every factor that is not locked takes the one
\* level with the highest count; when levels tie it takes the lowest of them
\* if the count is above 0 and keeps the value of the random initializer if
\* the count is 0
C26_TiesTakeLowest ==
    ahead.state = "tweaked_l" =>
        \A c \in Unlocked :
            /\ Cardinality(Highest(c)) = 1 => ahead.row[c + 1] \in Highest(c)
            /\ Cardinality(Highest(c)) >= 2 =>
                    IF \E val \in Highest(c) : Appearances(c, val) > 0
                    THEN /\ ahead.row[c + 1] \in Highest(c)
                         /\ \A val \in Highest(c) : ahead.row[c + 1] <= val
                    ELSE ahead.row[c + 1] = ahead.random[c + 1]

\* a factor that is not locked has two levels tied above 0 and the random
\* row held the higher one; another row has a factor with one highest level
C26_Witness ==
    /\ ahead.state = "tweaked_l"
    /\ \E c \in Unlocked :
        /\ Cardinality(Highest(c)) >= 2
        /\ \E val \in Highest(c) : Appearances(c, val) > 0
        /\ ahead.random[c + 1] # ahead.row[c + 1]

(***************************************************************************)
(* Properties of heuristic_c_only.                                         *)
(***************************************************************************)
\* what heuristic_c_helper returns for the row on trial when the counts
\* start from 0
FreshProblems ==
    heuristic_c_helper(arr, ahead.row, build_row_interactions(arr, ahead.row),
                       [f \in DOMAIN ahead.problems |-> 0])

\* a value of a factor has been tried and judged
TrialJudged ==
    \/ ahead.state = "trying" /\ ahead.i >= 2
    \/ ahead.state = "returned" /\ ahead.i >= 1 /\ ~ahead.crashed

\* C27: the problems a trial is judged by are those of its row alone, and
\* the trial is accepted exactly when their maximum is below the original
\* maximum
C27_TrialsJudgedAlone ==
    TrialJudged =>
        /\ ahead.temp_problems = FreshProblems.problems
        /\ ahead.state = "returned" <=> FreshProblems.max_problems < ahead.max_problems

\* C28: the row heuristic_c_only works on holds a level of every factor
\* whenever its Interactions are looked up or it is committed, and after a
\* cycle of trials without success the factor is back at its original value
C28_RowsStayInRange ==
    ahead.state # "none" =>
        /\ IsRow(arr, ahead.row)
        /\ ahead.state = "put_back" => ahead.row = ahead.original

(***************************************************************************)
(* Properties of the deltas.                                               *)
(***************************************************************************)
\* C30: in phase all the delta an Interaction keeps for a T set it is not in
\* is the number of rows that hold the Interaction and no member of the set
C30_DeltasAreSeparations ==
    arr.p = "all" /\ ~arr.exited =>
        \A i \in DOMAIN arr.interactions :
            \A ts \in DOMAIN arr.sets :
                ts \notin arr.interactions[i].sets =>
                    arr.interactions[i].deltas[ts] = Separation(i, ts)

\* C30 for the Interactions that are not detectable: in phase all the delta
\* such an Interaction keeps for a T set it is not in is the number of rows
\* that hold the Interaction and no member of the set
C30_DeltasOfUndetectable ==
    arr.p = "all" /\ ~arr.exited =>
        \A i \in DOMAIN arr.interactions :
            ~arr.interactions[i].is_detectable =>
                \A ts \in DOMAIN arr.sets :
                    ts \notin arr.interactions[i].sets =>
                        arr.interactions[i].deltas[ts] = Separation(i, ts)

\* an Interaction that is not detectable is in two rows, one of them with a
\* T set it is not in
C30_Witness ==
    /\ arr.p = "all"
    /\ ~arr.exited
    /\ \E i \in DOMAIN arr.interactions :
        /\ ~arr.interactions[i].is_detectable
        /\ Cardinality(arr.interactions[i].rows) >= 2
        /\ \E ts \in DOMAIN arr.sets :
            /\ ts \notin arr.interactions[i].sets
            /\ arr.interactions[i].deltas[ts] = 1

====
